---- MODULE Spec2Model ----
(***************************************************************************)
(* A model of tasru: the navigation facade (src/src/debug_types.rs), the   *)
(* symbol model and per-unit lookups (src/src/unit_info.rs), the registry  *)
(* and the name splitting (src/src/lib.rs) and the memory reader           *)
(* (src/src/memory.rs).                                                     *)
(*                                                                         *)
(* Option<T> is a sequence of length 0 (None) or 1 (Some).  Result<T, E>   *)
(* is a record [ok, val] or [ok, err].  A &str is a sequence of one-        *)
(* character strings where the code inspects characters, a TLA+ string     *)
(* where it only compares names.  DebugItem, MemoryLocation and            *)
(* StructOffset are the naturals they wrap.                                 *)
(***************************************************************************)
EXTENDS Integers, Sequences, FiniteSets, Bags, TLC

VARIABLES
    info,    \* the DebugInfo registry; immutable once built
    trail,   \* the cursors obtained so far, root first: [op, cursor]
    last,    \* the operation called last: [op, arg, self, live]
    result,  \* what the last operation returned
    reads,   \* the read_u8 calls the last operation made: [addr, val]
    kind,    \* the &str handed to split_namespace_and_name
    dwarf    \* the units of the object file that DebugInfo::load walks

vars == <<info, trail, last, result, reads, kind, dwarf>>

----------------------------------------------------------------------------
(* Bounds of the model.                                                    *)

MaxVariants == 2
MaxDiscriminant == 1

----------------------------------------------------------------------------
(* Option and Result.                                                      *)

None == <<>>
Some(x) == <<x>>
IsSome(o) == Len(o) = 1
IsNone(o) == Len(o) = 0
Unwrap(o) == o[1]

Ok(v) == [ok |-> TRUE, val |-> v]
Err(e) == [ok |-> FALSE, err |-> e]

\* Iterator::find: the first element of s, in order, that passes the
\* test; hits is the set of the indices whose element passes it.
Find(s, hits) ==
    IF hits = {} THEN None
    ELSE Some(s[CHOOSE i \in hits : \A j \in hits : i <= j])

\* HashMap::get on a map kept as a function.
Get(m, k) == IF k \in DOMAIN m THEN Some(m[k]) ELSE None

EmptyMap == [k \in {} |-> None]

SeqsUpTo(S, n) == UNION {[1..k -> S] : k \in 0..n}

----------------------------------------------------------------------------
(* The memory reader, src/src/memory.rs.  A reader is an injected          *)
(* capability: what it answers is an input.  The answers of the read_u8    *)
(* calls of one read_uN are given as a script, one entry per byte: a byte  *)
(* value, or one of ReadErrors when read_u8 returns Err, the reader's own  *)
(* error value.  The bytes answered before                                 *)
(* a failing read_u8 are dropped by `?`; the scripts take 0 for them.      *)

ReadFail == -1
ReadFault == -2
ReadErrors == {ReadFail, ReadFault}
ByteVals == {0, 1}
ByteScripts(w) ==
    [1..w -> ByteVals]
        \cup {[i \in 1..k |-> IF i = k THEN e ELSE 0] : k \in 1..w, e \in ReadErrors}

\* A u64 (and a usize, 64 bits wide on the host) that holds a value read
\* from the target is kept as its two 32-bit halves: the model's integers
\* are narrower than 64 bits.  u8, u16 and u32 values, and the locations
\* and offsets, which stay small, are plain naturals.
U64(lo, hi) == [lo |-> lo, hi |-> hi]

\* u64::from(u8 | u16 | u32), the `.into()` of the facade: zero extension.
u64_from(x) == U64(x, 0)

\* u16::from_le_bytes and u32::from_le_bytes: the first byte is the lowest.
RECURSIVE from_le_bytes(_)
from_le_bytes(b) ==
    IF Len(b) = 0 THEN 0 ELSE b[1] + 256 * from_le_bytes(Tail(b))

\* u64::from_le_bytes.
u64_from_le_bytes(b) ==
    U64(from_le_bytes(SubSeq(b, 1, 4)), from_le_bytes(SubSeq(b, 5, 8)))

\* read_u8 .. read_u64 with the trait's default bodies: the bytes at
\* address, address + 1, ... are read in order, `?` stops at the first Err.
\* The value is a natural for w < 8 and a U64 for w = 8.
Read_read_uN(address, w, script) ==
    LET failed == {i \in 1..Len(script) : script[i] \in ReadErrors}
        n == IF failed = {} THEN w
             ELSE CHOOSE i \in failed : \A j \in failed : i <= j
    IN  [val |-> IF failed # {} THEN Err(script[n])
                 ELSE IF w = 8 THEN Ok(u64_from_le_bytes(script))
                 ELSE Ok(from_le_bytes(script)),
         log |-> [i \in 1..n |-> [addr |-> address + (i - 1), val |-> script[i]]]]

----------------------------------------------------------------------------
(* The symbol model and the per-unit lookups, src/src/unit_info.rs.        *)

\* A unit's cache: each *_address map with the vector it indexes, kept as
\* one function from DebugItem to the entity; the two name maps, kept as
\* functions from the name to the DebugItem of the variable.
EmptyUnit ==
    [variables |-> EmptyMap, structures |-> EmptyMap,
     enumerations |-> EmptyMap, arrays |-> EmptyMap, pointers |-> EmptyMap,
     base_types |-> EmptyMap, unions |-> EmptyMap,
     variable_names |-> EmptyMap, demangled_variable_names |-> EmptyMap]

\* The keys of the seven *_address maps, chained: a bag, an item held by
\* two of the maps is listed twice.
UnitInfo_all_symbols(unit) ==
    SetToBag(DOMAIN unit.arrays) (+) SetToBag(DOMAIN unit.base_types)
        (+) SetToBag(DOMAIN unit.enumerations) (+) SetToBag(DOMAIN unit.pointers)
        (+) SetToBag(DOMAIN unit.structures) (+) SetToBag(DOMAIN unit.unions)
        (+) SetToBag(DOMAIN unit.variables)

\* A size_from_item that knows the size of a pointer: what C11 must tell
\* apart from the code.
UnitInfo_size_from_item_of_pointer(unit, item) ==
    IF item \in DOMAIN unit.structures THEN Some(unit.structures[item].size)
    ELSE IF item \in DOMAIN unit.enumerations
        THEN Some(unit.enumerations[item].size)
    ELSE IF item \in DOMAIN unit.arrays THEN None
    ELSE IF item \in DOMAIN unit.pointers THEN Some(4)
    ELSE IF item \in DOMAIN unit.base_types
        THEN Some(unit.base_types[item].size)
    ELSE IF item \in DOMAIN unit.unions THEN Some(unit.unions[item].size)
    ELSE None

UnitInfo_size_from_item(unit, item) ==
    IF item \in DOMAIN unit.structures THEN Some(unit.structures[item].size)
    ELSE IF item \in DOMAIN unit.enumerations
        THEN Some(unit.enumerations[item].size)
    ELSE IF item \in DOMAIN unit.arrays THEN None
    ELSE IF item \in DOMAIN unit.pointers THEN None
    ELSE IF item \in DOMAIN unit.base_types
        THEN Some(unit.base_types[item].size)
    ELSE IF item \in DOMAIN unit.unions THEN Some(unit.unions[item].size)
    ELSE None

\* Enumeration::variant_with_discriminant: the variant at that position of
\* the variants vector, else the first variant without a discriminant.
Enumeration_variant_with_discriminant(enumeration, discriminant) ==
    IF discriminant.hi = 0 /\ discriminant.lo < Len(enumeration.variants)
    THEN Some(enumeration.variants[discriminant.lo + 1])
    ELSE Find(enumeration.variants,
              {i \in 1..Len(enumeration.variants) :
                    IsNone(enumeration.variants[i].discriminant)})

Enumeration_variant_named(enumeration, name) ==
    Find(enumeration.variants,
         {i \in 1..Len(enumeration.variants) : enumeration.variants[i].name = name})

Union_member_named(union, name) ==
    Find(union.members,
         {i \in 1..Len(union.members) : union.members[i].name = Some(name)})

Structure_member_named(structure, name) ==
    Find(structure.members,
         {i \in 1..Len(structure.members) : structure.members[i].name = Some(name)})

\* A string that names a variable: the "::"-separated segments it spells,
\* and whether it spells them in rustc's mangling ("_ZN1m1XE" for m::X) or
\* plainly ("m::X").
Text(path) == [mangled |-> FALSE, path |-> path]
Mangled(path) == [mangled |-> TRUE, path |-> path]

\* format!("{:#}", rustc_demangle::demangle(s)): a mangled name is spelled
\* out, any other string is left as it is.
rustc_demangle(s) == Text(s.path)

\* parse_variable: the Variable of a DW_TAG_variable entry, if its name,
\* type and location are all there.  parents is the chain of the enclosing
\* namespaces; the name is format!("{namespace}::{name}") with namespace =
\* parents.join("::"), so a variable outside every namespace is "::name".
parse_variable(die) ==
    IF IsSome(die.name) /\ IsSome(die.kind) /\ IsSome(die.location)
    THEN Some([name |-> Text((IF die.parents = <<>> THEN <<"">> ELSE die.parents)
                                \o <<Unwrap(die.name)>>),
               kind |-> Unwrap(die.kind),
               location |-> Unwrap(die.location),
               linkage_name |-> die.linkage_name])
    ELSE None

\* The build of a unit in progress: the cache, or the panic of an assert!.
Building(cache) == [panicked |-> FALSE, cache |-> cache]
Panicked == [panicked |-> TRUE, cache |-> EmptyUnit]

\* assert!(map.insert(key, value).is_none()) on one map of the cache.
AssertInsert(st, field, key, value) ==
    IF st.panicked \/ key \in DOMAIN st.cache[field] THEN Panicked
    ELSE Building([st.cache EXCEPT ![field] = (key :> value) @@ @])

\* The DW_TAG_variable arm of UnitInfo::new.
UnitInfo_new_variable(st, die) ==
    LET parsed == parse_variable(die)
        variable == Unwrap(parsed)
        demangled_name == rustc_demangle(variable.name)
        linkage_name == Unwrap(variable.linkage_name)
        demangled_linkage_name == rustc_demangle(linkage_name)
        st1 == AssertInsert(st, "variable_names", linkage_name, die.offset)
        st2 == IF demangled_linkage_name # demangled_name
               THEN AssertInsert(st1, "demangled_variable_names",
                                 demangled_linkage_name, die.offset)
               ELSE st1
        st3 == IF variable.name # linkage_name
               THEN AssertInsert(
                        AssertInsert(st2, "variable_names", variable.name, die.offset),
                        "demangled_variable_names", demangled_name, die.offset)
               ELSE st2
        named == IF IsSome(variable.linkage_name) THEN st3 ELSE st
    IN  IF IsNone(parsed) THEN st
        ELSE AssertInsert(named, "variables", die.offset, variable)

\* The map that the arm of UnitInfo::new for that tag fills.
FieldOfTag(tag) ==
    CASE tag = "DW_TAG_variable" -> "variables"
      [] tag = "DW_TAG_structure_type" -> "structures"
      [] tag = "DW_TAG_variant_part" -> "enumerations"
      [] tag = "DW_TAG_union_type" -> "unions"
      [] tag = "DW_TAG_array_type" -> "arrays"
      [] tag = "DW_TAG_pointer_type" -> "pointers"
      [] tag = "DW_TAG_base_type" -> "base_types"

\* The structure_type arm followed by the DW_TAG_variant_part arm: the
\* insert in structure_address is asserted, the address is removed again,
\* and the insert in enumeration_address is not asserted: it replaces an
\* enumeration registered under the same address.
UnitInfo_new_promoted(st, die) ==
    IF st.panicked \/ die.offset \in DOMAIN st.cache.structures THEN Panicked
    ELSE Building([st.cache EXCEPT !.enumerations = (die.offset :> die.entity) @@ @])

\* One turn of the loop of UnitInfo::new over the entries of the unit, the
\* DIEs of an entity taken together.  An entry is [tag, offset, entity]
\* with the entity as its parse_* function returns it, or a
\* DW_TAG_variable entry with its attributes; a structure entry and the
\* DW_TAG_variant_part that turns it into an enumeration are one entry, of
\* the tag DW_TAG_variant_part.  The walk DIE by DIE is UnitInfo_new_die.
UnitInfo_new_entry(st, die) ==
    IF st.panicked THEN st
    ELSE IF die.tag = "DW_TAG_variable" THEN UnitInfo_new_variable(st, die)
    ELSE IF die.tag = "DW_TAG_variant_part" THEN UnitInfo_new_promoted(st, die)
    ELSE AssertInsert(st, FieldOfTag(die.tag), die.offset, die.entity)

RECURSIVE UnitInfo_new_from(_, _)
UnitInfo_new_from(st, entries) ==
    IF Len(entries) = 0 THEN st
    ELSE UnitInfo_new_from(UnitInfo_new_entry(st, Head(entries)), Tail(entries))

UnitInfo_new(entries) == UnitInfo_new_from(Building(EmptyUnit), entries)

----------------------------------------------------------------------------
(* The walk of UnitInfo::new over the DIEs of a unit, src/src/unit_info.rs. *)
(* A DIE is what entries.next_dfs() yields, with the attributes the arms   *)
(* read: [depth_delta, tag, offset, name, byte_size, type, location,       *)
(* lower_bound, count, discr_value, other].  name is the string that       *)
(* parse_string makes of DW_AT_name, None when the attribute is absent or  *)
(* of a form parse_string does not resolve; type and location are the      *)
(* attribute values with their form; other says that the DIE carries an    *)
(* attribute outside the list of its arm.                                  *)

\* A DW_AT_type value of that form; a DW_AT_data_member_location or
\* DW_AT_location value of that form.  An Exprloc holds what
\* evaluate_expression makes of it: Some(address) or None.
TypeAttr(form, item) == Some([form |-> form, item |-> item])
OffsetAttr(form, value) == Some([form |-> form, value |-> value])

\* parse_type: panic!("Unknown type index") for any form but UnitRef and
\* DebugInfoRef.
parse_type_panics(attr) ==
    IsSome(attr) /\ Unwrap(attr).form \notin {"UnitRef", "DebugInfoRef"}

parse_type(attr) == IF IsNone(attr) THEN None ELSE Some(Unwrap(attr).item)

\* parse_offset: panic!() for any form but LocationListsRef, Udata and
\* Exprloc.
parse_offset_panics(attr) ==
    IsSome(attr) /\ Unwrap(attr).form \notin {"LocationListsRef", "Udata", "Exprloc"}

parse_offset(attr) ==
    IF IsNone(attr) THEN None
    ELSE IF Unwrap(attr).form = "Udata" THEN Some(Unwrap(attr).value)
    ELSE IF Unwrap(attr).form = "Exprloc" THEN Unwrap(attr).value
    ELSE None

parse_structure(die) ==
    IF IsSome(die.name) /\ IsSome(die.byte_size)
    THEN Some([members |-> <<>>, name |-> Unwrap(die.name),
               size |-> Unwrap(die.byte_size), containing_type |-> None])
    ELSE None

parse_union(die) ==
    IF IsSome(die.name) /\ IsSome(die.byte_size)
    THEN Some([members |-> <<>>, name |-> Unwrap(die.name),
               size |-> Unwrap(die.byte_size)])
    ELSE None

\* offset.unwrap_or(StructOffset(0)); a member needs its type only.
parse_structure_member(die) ==
    LET type == parse_type(die.type)
        offset == parse_offset(die.location)
    IN  IF IsSome(type)
        THEN Some([name |-> die.name, kind |-> Unwrap(type),
                   offset |-> IF IsSome(offset) THEN Unwrap(offset) ELSE 0])
        ELSE None

\* parse_enum_discriminant: the offset is always written, the kind when
\* the DIE has a type.
parse_enum_discriminant(die, enumeration) ==
    LET type == parse_type(die.type)
        offset == parse_offset(die.location)
    IN  [enumeration EXCEPT
            !.discriminant_offset = IF IsSome(offset) THEN Unwrap(offset) ELSE 0,
            !.discriminant_kind = IF IsSome(type) THEN Unwrap(type) ELSE @]

parse_enum_variant(die) == die.discr_value

update_enum_variant_member(die, variant) ==
    LET type == parse_type(die.type)
        offset == parse_offset(die.location)
    IN  [variant EXCEPT
            !.name = IF IsSome(die.name) THEN Unwrap(die.name) ELSE @,
            !.kind = IF IsSome(type) THEN Unwrap(type) ELSE @,
            !.offset = IF IsSome(offset) THEN Unwrap(offset) ELSE @]

parse_array(die) ==
    LET type == parse_type(die.type)
    IN  IF IsSome(type) THEN Some([kind |-> Unwrap(type)]) ELSE None

parse_subrange(die) ==
    IF IsSome(die.lower_bound) /\ IsSome(die.count)
    THEN Some([lower_bound |-> Unwrap(die.lower_bound), count |-> Unwrap(die.count)])
    ELSE None

parse_pointer(die) ==
    LET type == parse_type(die.type)
    IN  IF IsSome(type) THEN Some([name |-> die.name, kind |-> Unwrap(type)]) ELSE None

parse_base_type(die) ==
    IF IsSome(die.name) /\ IsSome(die.byte_size)
    THEN Some([name |-> Unwrap(die.name), size |-> Unwrap(die.byte_size)])
    ELSE None

\* The locals of UnitInfo::new between two turns of its loop: the vectors
\* with their *_address maps (an index is a position of the vector, from
\* 1 here), the variables and their names as UnitInfo_new_variable keeps
\* them, and the state of the walk.  panicked is set by a panic!, an
\* assert! or an unwrap() that fails, cause names it.
WalkStart ==
    [panicked |-> FALSE, cause |-> "",
     depth |-> 0, tag_parent_list |-> <<>>, parent_namespace |-> <<>>,
     last_structure_address |-> None, array_in_progress |-> None,
     cache |-> EmptyUnit,
     structures |-> <<>>, structure_address |-> EmptyMap,
     enumerations |-> <<>>, enumeration_address |-> EmptyMap,
     unions |-> <<>>, union_address |-> EmptyMap,
     arrays |-> <<>>, array_address |-> EmptyMap,
     pointers |-> <<>>, pointer_address |-> EmptyMap,
     base_types |-> <<>>, base_type_address |-> EmptyMap]

WalkPanic(st, cause) == [st EXCEPT !.panicked = TRUE, !.cause = cause]

\* assert!(address.insert(offset, EntryIndex(vector.len())).is_none());
\* vector.push(entity);
AssertPush(st, vector, address, offset, entity) ==
    IF offset \in DOMAIN st[address] THEN WalkPanic(st, "registered twice")
    ELSE [st EXCEPT ![address] = (offset :> Len(st[vector]) + 1) @@ @,
                    ![vector] = Append(@, entity)]

\* The vector without its last element.
ButLast(vector) == SubSeq(vector, 1, Len(vector) - 1)

\* The head of a turn of the loop: depth follows depth_delta, the parent
\* list is truncated to depth, each DW_TAG_namespace popped pops a name
\* (Vec::pop does nothing on an empty vector), then padded with
\* DW_TAG_null and ended by the tag of the DIE.
UnitInfo_new_descend(st, die) ==
    LET depth == st.depth + die.depth_delta
        kept == IF Len(st.tag_parent_list) > depth
                THEN SubSeq(st.tag_parent_list, 1, depth) ELSE st.tag_parent_list
        popped == {i \in (Len(kept) + 1)..Len(st.tag_parent_list) :
                        st.tag_parent_list[i] = "DW_TAG_namespace"}
        names == Len(st.parent_namespace) - Cardinality(popped)
    IN  IF depth < 0 THEN WalkPanic(st, "Depth went negative!")
        ELSE [st EXCEPT
                !.depth = depth,
                !.parent_namespace = SubSeq(@, 1, IF names < 0 THEN 0 ELSE names),
                !.tag_parent_list =
                    [i \in 1..(depth + 1) |->
                        IF i = depth + 1 THEN die.tag
                        ELSE IF i <= Len(kept) THEN kept[i]
                        ELSE "DW_TAG_null"]]

\* tag_parent_list.get(len.saturating_sub(2)): the tag before the last,
\* the last itself when it is alone.
ParentTag(st) ==
    LET len == Len(st.tag_parent_list)
    IN  st.tag_parent_list[IF len < 2 THEN 1 ELSE len - 1]

\* Whether the parse_* function of the arm taken panics on the DIE.
UnitInfo_new_parse_panics(parent_tag, die) ==
    LET reads_type == parse_type_panics(die.type)
        reads_offset == parse_offset_panics(die.location)
    IN  CASE die.tag = "DW_TAG_variable" -> reads_type \/ reads_offset
          [] die.tag = "DW_TAG_member" /\ parent_tag = "DW_TAG_variant" ->
                reads_type \/ reads_offset \/ die.other
          [] die.tag = "DW_TAG_member"
             /\ parent_tag \in {"DW_TAG_variant_part", "DW_TAG_structure_type",
                                "DW_TAG_union_type"} ->
                reads_type \/ reads_offset
          [] die.tag = "DW_TAG_variant" /\ parent_tag = "DW_TAG_variant_part" ->
                die.other
          [] die.tag = "DW_TAG_array_type" -> reads_type
          [] die.tag = "DW_TAG_pointer_type" -> reads_type \/ die.other
          [] die.tag = "DW_TAG_base_type" -> die.other
          [] OTHER -> FALSE

\* The arm DW_TAG_variant_part under a structure_type: the last structure
\* of the vector is popped and becomes an enumeration under the address
\* of the structure or union registered last; the insert in
\* enumeration_address is not asserted.
UnitInfo_new_variant_part(st, die) ==
    LET structure == st.structures[Len(st.structures)]
        address == Unwrap(st.last_structure_address)
    IN  IF Len(st.structures) = 0 THEN st
        ELSE IF IsNone(st.last_structure_address)
            THEN WalkPanic(st, "last_structure_address.take().unwrap()")
        ELSE IF address \notin DOMAIN st.structure_address
            THEN WalkPanic(st, "assert!(structure_address.remove(..).is_some())")
        ELSE [st EXCEPT
                !.structures = ButLast(@),
                !.last_structure_address = None,
                !.structure_address =
                    [item \in DOMAIN @ \ {address} |-> @[item]],
                !.enumeration_address =
                    (address :> Len(st.enumerations) + 1) @@ @,
                !.enumerations =
                    Append(@, [name |-> structure.name, discriminant_kind |-> 0,
                               discriminant_offset |-> 0, size |-> structure.size,
                               variants |-> <<>>])]

\* The arms DW_TAG_member and DW_TAG_variant: each changes the last
\* element of a vector, whatever DIE that element came from, and nothing
\* when the vector is empty.
UnitInfo_new_member(st, parent_tag, die) ==
    LET en == Len(st.enumerations)
        last_enum == st.enumerations[en]
        vn == Len(last_enum.variants)
        member == parse_structure_member(die)
        sn == Len(st.structures)
        un == Len(st.unions)
    IN  CASE die.tag = "DW_TAG_member" /\ parent_tag = "DW_TAG_variant_part" ->
                IF en = 0 THEN st
                ELSE [st EXCEPT !.enumerations[en] = parse_enum_discriminant(die, @)]
          [] die.tag = "DW_TAG_variant" ->
                IF en = 0 THEN st
                ELSE [st EXCEPT !.enumerations[en].variants =
                        Append(@, [name |-> "", discriminant |-> parse_enum_variant(die),
                                   kind |-> 0, offset |-> 0])]
          [] die.tag = "DW_TAG_member" /\ parent_tag = "DW_TAG_variant" ->
                IF en = 0 \/ vn = 0 THEN st
                ELSE [st EXCEPT !.enumerations[en].variants[vn] =
                        update_enum_variant_member(die, @)]
          [] die.tag = "DW_TAG_member" /\ parent_tag = "DW_TAG_structure_type" ->
                IF IsNone(member) \/ sn = 0 THEN st
                ELSE [st EXCEPT !.structures[sn].members = Append(@, Unwrap(member))]
          [] die.tag = "DW_TAG_member" /\ parent_tag = "DW_TAG_union_type" ->
                IF IsNone(member) \/ un = 0 THEN st
                ELSE [st EXCEPT !.unions[un].members = Append(@, Unwrap(member))]

\* A subrange arm that reads array_in_progress and leaves it in place: what
\* C27 must tell apart from the code.
UnitInfo_new_subrange_untaken(st, die) ==
    LET subrange == parse_subrange(die)
        partial == Unwrap(st.array_in_progress)
    IN  IF IsNone(subrange) THEN st
        ELSE IF IsNone(st.array_in_progress)
            THEN WalkPanic(st, "Got a subrange without an array in progress!")
        ELSE AssertPush(st, "arrays", "array_address", partial.offset,
                        [kind |-> partial.kind,
                         lower_bound |-> Unwrap(subrange).lower_bound,
                         count |-> Unwrap(subrange).count])

\* The arm DW_TAG_subrange_type under an array_type.
UnitInfo_new_subrange(st, die) ==
    LET subrange == parse_subrange(die)
        partial == Unwrap(st.array_in_progress)
    IN  IF IsNone(subrange) THEN st
        ELSE IF IsNone(st.array_in_progress)
            THEN WalkPanic(st, "Got a subrange without an array in progress!")
        ELSE AssertPush([st EXCEPT !.array_in_progress = None],
                        "arrays", "array_address", partial.offset,
                        [kind |-> partial.kind,
                         lower_bound |-> Unwrap(subrange).lower_bound,
                         count |-> Unwrap(subrange).count])

\* The arm DW_TAG_variable, with UnitInfo_new_variable on the variables
\* and the names of the walk.
UnitInfo_new_variable_die(st, die) ==
    LET built == UnitInfo_new_variable(
                    Building(st.cache),
                    [tag |-> die.tag, offset |-> die.offset, name |-> die.name,
                     parents |-> st.parent_namespace,
                     kind |-> parse_type(die.type),
                     location |-> parse_offset(die.location),
                     linkage_name |-> die.linkage_name])
    IN  IF built.panicked THEN WalkPanic(st, "registered twice")
        ELSE [st EXCEPT !.cache = built.cache]

\* A type DIE that parses is registered under its offset.
RegisterParsed(st, parsed, vector, address, die) ==
    IF IsNone(parsed) THEN st
    ELSE AssertPush(st, vector, address, die.offset, Unwrap(parsed))

\* One turn of the loop of UnitInfo::new: the head, then the arm of the
\* match on the tag and the parent tag.
UnitInfo_new_die(st0, die) ==
    LET st == UnitInfo_new_descend(st0, die)
        parent_tag == ParentTag(st)
        structure == RegisterParsed(st, parse_structure(die), "structures",
                                    "structure_address", die)
        union == RegisterParsed(st, parse_union(die), "unions", "union_address", die)
        array == parse_array(die)
    IN  IF st0.panicked \/ st.panicked THEN st
        ELSE IF UnitInfo_new_parse_panics(parent_tag, die)
            THEN WalkPanic(st, "panic! in a parse function")
        ELSE CASE die.tag = "DW_TAG_variable" -> UnitInfo_new_variable_die(st, die)
          [] die.tag = "DW_TAG_variant_part" /\ parent_tag = "DW_TAG_structure_type" ->
                UnitInfo_new_variant_part(st, die)
          [] \/ die.tag = "DW_TAG_member"
                /\ parent_tag \in {"DW_TAG_variant_part", "DW_TAG_variant",
                                   "DW_TAG_structure_type", "DW_TAG_union_type"}
             \/ die.tag = "DW_TAG_variant" /\ parent_tag = "DW_TAG_variant_part" ->
                UnitInfo_new_member(st, parent_tag, die)
          [] die.tag = "DW_TAG_structure_type" ->
                IF structure.panicked \/ IsNone(parse_structure(die)) THEN structure
                ELSE [structure EXCEPT !.last_structure_address = Some(die.offset)]
          [] die.tag = "DW_TAG_union_type" ->
                IF union.panicked \/ IsNone(parse_union(die)) THEN union
                ELSE [union EXCEPT !.last_structure_address = Some(die.offset)]
          [] die.tag = "DW_TAG_array_type" ->
                [st EXCEPT !.array_in_progress =
                    IF IsNone(array) THEN None
                    ELSE Some([kind |-> Unwrap(array).kind, offset |-> die.offset])]
          [] die.tag = "DW_TAG_subrange_type" /\ parent_tag = "DW_TAG_array_type" ->
                UnitInfo_new_subrange(st, die)
          [] die.tag = "DW_TAG_pointer_type" ->
                RegisterParsed(st, parse_pointer(die), "pointers", "pointer_address", die)
          [] die.tag = "DW_TAG_base_type" ->
                RegisterParsed(st, parse_base_type(die), "base_types",
                               "base_type_address", die)
          [] die.tag = "DW_TAG_namespace" ->
                IF IsNone(die.name) THEN st
                ELSE [st EXCEPT !.parent_namespace = Append(@, Unwrap(die.name))]
          [] OTHER -> st

\* SymbolCache as UnitInfo::new returns it, each *_address map composed
\* with its vector.
UnitInfo_new_cache(st) ==
    LET Composed(vector, address) ==
            [item \in {i \in DOMAIN st[address] : st[address][i] <= Len(st[vector])} |->
                st[vector][st[address][item]]]
    IN  [st.cache EXCEPT
            !.structures = Composed("structures", "structure_address"),
            !.enumerations = Composed("enumerations", "enumeration_address"),
            !.unions = Composed("unions", "union_address"),
            !.arrays = Composed("arrays", "array_address"),
            !.pointers = Composed("pointers", "pointer_address"),
            !.base_types = Composed("base_types", "base_type_address")]

UnitInfo_variable_from_name(unit, name) ==
    LET addr == Get(unit.variable_names, name)
    IN  IF IsNone(addr) THEN None ELSE Get(unit.variables, Unwrap(addr))

UnitInfo_variable_from_demangled_name(unit, name) ==
    LET addr == Get(unit.demangled_variable_names, name)
    IN  IF IsNone(addr) THEN None ELSE Get(unit.variables, Unwrap(addr))

----------------------------------------------------------------------------
(* The registry, src/src/lib.rs.  units is 1-based here.                   *)

DebugInfo_load(units) ==
    [units |-> units,
     symbol_unit_mapping |->
        [item \in UNION {BagToSet(UnitInfo_all_symbols(units[u])) : u \in 1..Len(units)} |->
            CHOOSE u \in 1..Len(units) : item \in BagToSet(UnitInfo_all_symbols(units[u]))]]

FromItem(field, item) ==
    LET var == Get(info.symbol_unit_mapping, item)
    IN  IF IsNone(var) THEN None ELSE Get(info.units[Unwrap(var)][field], item)

DebugInfo_structure_from_item(item) == FromItem("structures", item)
DebugInfo_enumeration_from_item(item) == FromItem("enumerations", item)
DebugInfo_pointer_from_item(item) == FromItem("pointers", item)
DebugInfo_array_from_item(item) == FromItem("arrays", item)
DebugInfo_union_from_item(item) == FromItem("unions", item)
DebugInfo_base_type_from_item(item) == FromItem("base_types", item)

\* DebugVariable::new
DebugVariable(variable) == [type |-> "DebugVariable", variable |-> variable]

\* A loop body that inserts in the mapping without assert!: what C12 must
\* tell apart from the code.
DebugInfo_load_unit_unasserted(registry, entries) ==
    LET built == UnitInfo_new(entries)
        symbols == UnitInfo_all_symbols(built.cache)
    IN  [panicked |-> built.panicked,
         info |-> [units |-> Append(registry.units, built.cache),
                   symbol_unit_mapping |->
                       [symbol \in BagToSet(symbols) |-> Len(registry.units) + 1]
                           @@ registry.symbol_unit_mapping]]

\* The body of the loop of DebugInfo::load for one unit: the unit is built,
\* each of its symbols is inserted in the mapping under assert!, the unit
\* is pushed.  [panicked, info].
DebugInfo_load_unit(registry, entries) ==
    LET built == UnitInfo_new(entries)
        symbols == UnitInfo_all_symbols(built.cache)
    IN  IF \/ built.panicked
           \/ \E symbol \in BagToSet(symbols) :
                \/ CopiesIn(symbol, symbols) > 1
                \/ symbol \in DOMAIN registry.symbol_unit_mapping
        THEN [panicked |-> TRUE, info |-> registry]
        ELSE [panicked |-> FALSE,
              info |-> [units |-> Append(registry.units, built.cache),
                        symbol_unit_mapping |->
                            [symbol \in BagToSet(symbols) |-> Len(registry.units) + 1]
                                @@ registry.symbol_unit_mapping]]

\* `for unit in &self.units`: the first unit that knows the name.
FirstUnit(hits) ==
    IF hits = {} THEN None ELSE Some(CHOOSE u \in hits : \A v \in hits : u <= v)

DebugInfo_variable_from_demangled_name(path) ==
    LET unit == FirstUnit({u \in 1..Len(info.units) :
                    IsSome(UnitInfo_variable_from_demangled_name(info.units[u], path))})
    IN  IF IsSome(unit)
        THEN Ok(DebugVariable(Unwrap(
                UnitInfo_variable_from_demangled_name(info.units[Unwrap(unit)], path))))
        ELSE Err([tag |-> "VariableNotFound", name |-> path])

DebugInfo_variable_from_name(path) ==
    LET unit == FirstUnit({u \in 1..Len(info.units) :
                    IsSome(UnitInfo_variable_from_name(info.units[u], path))})
    IN  IF IsSome(unit)
        THEN Ok(DebugVariable(Unwrap(
                UnitInfo_variable_from_name(info.units[Unwrap(unit)], path))))
        ELSE Err([tag |-> "VariableNotFound", name |-> path])

DebugInfo_variable_from_item(item) == FromItem("variables", item)

DebugInfo_size_from_item(item) ==
    LET var == Get(info.symbol_unit_mapping, item)
    IN  IF IsNone(var) THEN None
        ELSE UnitInfo_size_from_item(info.units[Unwrap(var)], item)

----------------------------------------------------------------------------
(* The navigation facade, src/src/debug_types.rs.  A cursor is a record    *)
(* with its type, its Option<MemoryLocation>, its StructOffset and the     *)
(* entity it borrows.  An operation that takes a reader returns the value  *)
(* and the log of the read_u8 calls it made: [val, log].                    *)

\* Option<MemoryLocation>::map(|l| l + offset)
LocAdd(location, offset) ==
    IF IsSome(location) THEN Some(Unwrap(location) + offset) ELSE None

DebugStructure(location, offset, structure) ==
    [type |-> "DebugStructure", location |-> location, offset |-> offset,
     structure |-> structure]

DebugEnumeration(location, offset, enumeration) ==
    [type |-> "DebugEnumeration", location |-> location, offset |-> offset,
     enumeration |-> enumeration]

\* The DebugEnumerationVariant that variant_with_discriminant, variant_named
\* and variants build for a variant of the enumeration.
DebugEnumerationVariant(self, variant) ==
    [type |-> "DebugEnumerationVariant",
     location |-> LocAdd(self.location, variant.offset),
     offset |-> self.offset + variant.offset,
     variant |-> variant,
     parent_name |-> self.enumeration.name]

DebugEnumerationVariant_structure(self) ==
    LET structure == DebugInfo_structure_from_item(self.variant.kind)
    IN  IF IsSome(structure)
        THEN Ok(DebugStructure(LocAdd(self.location, self.variant.offset),
                               self.offset + self.variant.offset,
                               Unwrap(structure)))
        ELSE Err([tag |-> "StructureNotFound", owner |-> self.parent_name])

DebugEnumeration_variant_with_discriminant(self, discriminant) ==
    LET variant == Enumeration_variant_with_discriminant(self.enumeration, discriminant)
    IN  IF IsSome(variant)
        THEN Ok(DebugEnumerationVariant(self, Unwrap(variant)))
        ELSE Err([tag |-> "VariantNotFound", owner |-> self.enumeration.name,
                  variant |-> discriminant])

DebugEnumeration_variant_named(self, name) ==
    LET variant == Enumeration_variant_named(self.enumeration, name)
    IN  IF IsSome(variant)
        THEN Ok(DebugEnumerationVariant(self, Unwrap(variant)))
        ELSE Err([tag |-> "VariantNotFound", owner |-> self.enumeration.name,
                  variant |-> name])

DebugEnumeration_variants(self) ==
    Ok([i \in 1..Len(self.enumeration.variants) |->
            DebugEnumerationVariant(self, self.enumeration.variants[i])])

\* DebugEnumeration::discriminant_size: the size of the base type that
\* the discriminant is of.
DebugEnumeration_discriminant_size(self) ==
    LET discriminant == DebugInfo_base_type_from_item(self.enumeration.discriminant_kind)
    IN  IF IsNone(discriminant)
        THEN Err([tag |-> "BaseTypeNotFound", owner |-> self.enumeration.name])
        ELSE Ok(Unwrap(discriminant).size)

\* The width of the read that `match discriminant_size.0` issues; 0: none.
DiscriminantReadWidth(self) ==
    LET discriminant_size == DebugInfo_size_from_item(self.enumeration.discriminant_kind)
    IN  IF IsSome(self.location) /\ IsSome(discriminant_size)
           /\ Unwrap(discriminant_size) \in {1, 2, 4, 8}
        THEN Unwrap(discriminant_size) ELSE 0

DebugEnumeration_variant(self, script) ==
    LET discriminant_size == DebugInfo_size_from_item(self.enumeration.discriminant_kind)
    IN  IF IsNone(self.location)
        THEN [val |-> Err([tag |-> "LocationMissing"]), log |-> <<>>]
        ELSE IF IsNone(discriminant_size)
        THEN [val |-> Err([tag |-> "KindNotFound",
                           owner |-> self.enumeration.name, member |-> None]),
              log |-> <<>>]
        ELSE IF Unwrap(discriminant_size) \notin {1, 2, 4, 8}
        THEN [val |-> Err([tag |-> "SizeError", size |-> Unwrap(discriminant_size)]),
              log |-> <<>>]
        ELSE LET r == Read_read_uN(Unwrap(self.location), Unwrap(discriminant_size), script)
                 discriminant == IF Unwrap(discriminant_size) = 8 THEN r.val.val
                                 ELSE u64_from(r.val.val)
             IN  IF ~r.val.ok
                 THEN [val |-> Err([tag |-> "ReadError"]), log |-> r.log]
                 ELSE [val |-> DebugEnumeration_variant_with_discriminant(self, discriminant),
                       log |-> r.log]

\* A structure() that makes the cursor without its location: what C29 must
\* tell apart from the code.
DebugVariable_structure_unbound(self) ==
    LET structure == DebugInfo_structure_from_item(self.variable.kind)
    IN  IF IsSome(structure)
        THEN Ok(DebugStructure(None, 0, Unwrap(structure)))
        ELSE Err([tag |-> "StructureNotFound", owner |-> self.variable.name])

DebugVariable_structure(self) ==
    LET structure == DebugInfo_structure_from_item(self.variable.kind)
    IN  IF IsSome(structure)
        THEN Ok(DebugStructure(Some(self.variable.location), 0, Unwrap(structure)))
        ELSE Err([tag |-> "StructureNotFound", owner |-> self.variable.name])

DebugVariable_array(self) ==
    LET array == DebugInfo_array_from_item(self.variable.kind)
    IN  IF IsSome(array)
        THEN Ok([type |-> "DebugArray", location |-> Some(self.variable.location),
                 offset |-> 0, array |-> Unwrap(array),
                 parent_name |-> self.variable.name])
        ELSE Err([tag |-> "ArrayNotFound", owner |-> self.variable.name])

\* A member_named that moves the location as well: what C4's amended
\* statement must tell apart from the code.
DebugStructure_member_named_moving(self, name) ==
    LET structure_member == Structure_member_named(self.structure, name)
    IN  IF IsSome(structure_member)
        THEN Ok([type |-> "DebugStructureMember",
                 location |-> LocAdd(self.location, Unwrap(structure_member).offset),
                 offset |-> self.offset + Unwrap(structure_member).offset,
                 parent_name |-> self.structure.name,
                 structure_member |-> Unwrap(structure_member)])
        ELSE Err([tag |-> "MemberNotFound", owner |-> self.structure.name,
                  member |-> name])

DebugStructure_member_named(self, name) ==
    LET structure_member == Structure_member_named(self.structure, name)
    IN  IF IsSome(structure_member)
        THEN Ok([type |-> "DebugStructureMember",
                 location |-> self.location,
                 offset |-> self.offset + Unwrap(structure_member).offset,
                 parent_name |-> self.structure.name,
                 structure_member |-> Unwrap(structure_member)])
        ELSE Err([tag |-> "MemberNotFound", owner |-> self.structure.name,
                  member |-> name])

\* A find_alternatives that has not looked the member's item up and names
\* the attempted kind as the actual one: what C16 must tell apart.
DebugStructureMember_find_alternatives_unlooked(self, attempted) ==
    [tag |-> "KindIncorrect", owner |-> self.parent_name,
     member |-> self.structure_member.name,
     attempted |-> attempted, actual |-> attempted]

DebugStructureMember_find_alternatives(self, attempted) ==
    LET kind_index == self.structure_member.kind
        incorrect(actual) ==
            [tag |-> "KindIncorrect", owner |-> self.parent_name,
             member |-> self.structure_member.name,
             attempted |-> attempted, actual |-> actual]
    IN  IF IsSome(DebugInfo_structure_from_item(kind_index)) THEN incorrect("structure")
        ELSE IF IsSome(DebugInfo_enumeration_from_item(kind_index))
            THEN incorrect("enumeration")
        ELSE IF IsSome(DebugInfo_pointer_from_item(kind_index)) THEN incorrect("pointer")
        ELSE IF IsSome(DebugInfo_array_from_item(kind_index)) THEN incorrect("array")
        ELSE IF IsSome(DebugInfo_union_from_item(kind_index)) THEN incorrect("union")
        ELSE IF IsSome(DebugInfo_base_type_from_item(kind_index))
            THEN incorrect("base type")
        ELSE [tag |-> "KindNotFound", owner |-> self.parent_name,
              member |-> self.structure_member.name]

DebugStructureMember_structure(self) ==
    LET structure == DebugInfo_structure_from_item(self.structure_member.kind)
    IN  IF IsSome(structure)
        THEN Ok(DebugStructure(LocAdd(self.location, self.structure_member.offset),
                               self.offset + self.structure_member.offset,
                               Unwrap(structure)))
        ELSE Err(DebugStructureMember_find_alternatives(self, "structure"))

DebugStructureMember_pointer(self) ==
    LET pointer == DebugInfo_pointer_from_item(self.structure_member.kind)
    IN  IF IsSome(pointer)
        THEN Ok([type |-> "DebugPointer",
                 location |-> LocAdd(self.location, self.structure_member.offset),
                 offset |-> self.offset + self.structure_member.offset,
                 pointer |-> Unwrap(pointer),
                 parent_name |-> self.parent_name])
        ELSE Err(DebugStructureMember_find_alternatives(self, "pointer"))

DebugStructureMember_array(self) ==
    LET array == DebugInfo_array_from_item(self.structure_member.kind)
    IN  IF IsSome(array)
        THEN Ok([type |-> "DebugArray",
                 location |-> LocAdd(self.location, self.structure_member.offset),
                 offset |-> self.offset + self.structure_member.offset,
                 array |-> Unwrap(array),
                 parent_name |-> self.parent_name])
        ELSE Err(DebugStructureMember_find_alternatives(self, "array"))

\* A base_type accessor that leaves the location where member_named left
\* it: what C5 must tell apart from the code.
DebugStructureMember_base_type_unmoved(self) ==
    LET base_type == DebugInfo_base_type_from_item(self.structure_member.kind)
    IN  IF IsSome(base_type)
        THEN Ok([type |-> "DebugBaseType",
                 location |-> self.location,
                 offset |-> self.offset + self.structure_member.offset,
                 base_type |-> Unwrap(base_type)])
        ELSE Err(DebugStructureMember_find_alternatives(self, "base type"))

DebugStructureMember_base_type(self) ==
    LET base_type == DebugInfo_base_type_from_item(self.structure_member.kind)
    IN  IF IsSome(base_type)
        THEN Ok([type |-> "DebugBaseType",
                 location |-> LocAdd(self.location, self.structure_member.offset),
                 offset |-> self.offset + self.structure_member.offset,
                 base_type |-> Unwrap(base_type)])
        ELSE Err(DebugStructureMember_find_alternatives(self, "base type"))

DebugStructureMember_union(self) ==
    LET union == DebugInfo_union_from_item(self.structure_member.kind)
    IN  IF IsSome(union)
        THEN Ok([type |-> "DebugUnion",
                 location |-> LocAdd(self.location, self.structure_member.offset),
                 offset |-> self.offset + self.structure_member.offset,
                 union |-> Unwrap(union)])
        ELSE Err(DebugStructureMember_find_alternatives(self, "union"))

DebugStructureMember_enumeration(self) ==
    LET enumeration == DebugInfo_enumeration_from_item(self.structure_member.kind)
    IN  IF IsSome(enumeration)
        THEN Ok(DebugEnumeration(LocAdd(self.location, self.structure_member.offset),
                                 self.offset + self.structure_member.offset,
                                 Unwrap(enumeration)))
        ELSE Err(DebugStructureMember_find_alternatives(self, "enumeration"))

DebugUnion_member_named(self, name) ==
    LET structure_member == Union_member_named(self.union, name)
    IN  IF IsSome(structure_member)
        THEN Ok([type |-> "DebugStructureMember",
                 location |-> self.location,
                 offset |-> self.offset + Unwrap(structure_member).offset,
                 parent_name |-> self.union.name,
                 structure_member |-> Unwrap(structure_member)])
        ELSE Err([tag |-> "UnionNotFound", owner |-> self.union.name])

\* The sizes that the `match self.size()` of as_u8 .. as_u64 reads.
AsSizes(bits) ==
    IF bits = 8 THEN {1} ELSE IF bits = 16 THEN {1, 2}
    ELSE IF bits = 32 THEN {1, 2, 4} ELSE {1, 2, 4, 8}

\* The width of the read that as_u<bits> issues; 0: none.
BaseTypeReadWidth(self, bits) ==
    IF IsSome(self.location) /\ self.base_type.size \in AsSizes(bits)
    THEN self.base_type.size ELSE 0

\* DebugBaseType::as_u8, as_u16, as_u32 (a natural) and as_u64 (a U64).
DebugBaseType_as_uN(self, bits, script) ==
    IF IsNone(self.location) \/ self.base_type.size \notin AsSizes(bits)
    THEN [val |-> None, log |-> <<>>]
    ELSE LET r == Read_read_uN(Unwrap(self.location), self.base_type.size, script)
         IN  [val |-> IF ~r.val.ok THEN None
                      ELSE IF bits = 64 /\ self.base_type.size < 8
                      THEN Some(u64_from(r.val.val))
                      ELSE Some(r.val.val),
              log |-> r.log]

DebugPointer_structure(self) ==
    LET structure == DebugInfo_structure_from_item(self.pointer.kind)
    IN  IF IsSome(structure)
        THEN Ok(DebugStructure(self.location, self.offset, Unwrap(structure)))
        ELSE Err([tag |-> "StructureNotFound", owner |-> self.parent_name])

\* The width of the read that follow issues; 0: none.
PointerReadWidth(self) == IF IsSome(self.location) THEN 4 ELSE 0

\* A follow that hands the reader's own error on: what C20 must tell apart
\* from the code.
DebugPointer_follow_passing(self, script) ==
    IF IsNone(self.location)
    THEN [val |-> Err([tag |-> "LocationMissing"]), log |-> <<>>]
    ELSE LET target == Read_read_uN(Unwrap(self.location), 4, script)
         IN  IF ~target.val.ok
             THEN [val |-> Err([tag |-> "ReadError", source |-> target.val.err]),
                   log |-> target.log]
             ELSE [val |-> Ok([self EXCEPT !.location = Some(target.val.val),
                                           !.offset = 0]),
                   log |-> target.log]

DebugPointer_follow(self, script) ==
    IF IsNone(self.location)
    THEN [val |-> Err([tag |-> "LocationMissing"]), log |-> <<>>]
    ELSE LET target == Read_read_uN(Unwrap(self.location), 4, script)
         IN  IF ~target.val.ok
             THEN [val |-> Err([tag |-> "ReadError"]), log |-> target.log]
             ELSE [val |-> Ok([self EXCEPT !.location = Some(target.val.val),
                                           !.offset = 0]),
                   log |-> target.log]

\* A follow_unless_null that lets the null pointer through: what C6 must
\* tell apart from the code.
DebugPointer_follow_unless_null_unchecked(self, script) ==
    DebugPointer_follow(self, script)

DebugPointer_follow_unless_null(self, script) ==
    LET new == DebugPointer_follow(self, script)
    IN  IF ~new.val.ok THEN new
        ELSE IF IsNone(new.val.val.location) \/ new.val.val.location = Some(0)
        THEN [val |-> Err([tag |-> "ReadError"]), log |-> new.log]
        ELSE new

\* Result<Option<Self>, _>: Ok(None) for a null pointer.
DebugPointer_try_follow(self, script) ==
    LET new == DebugPointer_follow(self, script)
    IN  IF ~new.val.ok THEN new
        ELSE IF IsNone(new.val.val.location)
        THEN [val |-> Err([tag |-> "ReadError"]), log |-> new.log]
        ELSE IF new.val.val.location = Some(0)
        THEN [val |-> Ok(None), log |-> new.log]
        ELSE [val |-> Ok(Some(new.val.val)), log |-> new.log]

\* as_slice, first part: `self.member_named("length")?.base_type()?
\* .as_u64(memory_source).ok_or(ReadError)?`: [val, log], val the Result.
DebugStructure_as_slice_length(self, script) ==
    LET member == DebugStructure_member_named(self, "length")
        base_type == DebugStructureMember_base_type(member.val)
        length == DebugBaseType_as_uN(base_type.val, 64, script)
    IN  IF ~member.ok THEN [val |-> member, log |-> <<>>]
        ELSE IF ~base_type.ok THEN [val |-> base_type, log |-> <<>>]
        ELSE IF IsNone(length.val)
        THEN [val |-> Err([tag |-> "ReadError"]), log |-> length.log]
        ELSE [val |-> Ok(Unwrap(length.val)), log |-> length.log]

\* as_slice, second part: `self.member_named("data_ptr")?.pointer()?
\* .follow_unless_null(memory_source)?`.
DebugStructure_as_slice_data_ptr(self, script) ==
    LET member == DebugStructure_member_named(self, "data_ptr")
        pointer == DebugStructureMember_pointer(member.val)
    IN  IF ~member.ok THEN [val |-> member, log |-> <<>>]
        ELSE IF ~pointer.ok THEN [val |-> pointer, log |-> <<>>]
        ELSE DebugPointer_follow_unless_null(pointer.val, script)

\* The widths of the two reads that as_slice issues; 0: none.
SliceLengthReadWidth(self) ==
    LET member == DebugStructure_member_named(self, "length")
        base_type == DebugStructureMember_base_type(member.val)
    IN  IF Len(self.structure.members) # 2 \/ ~member.ok \/ ~base_type.ok THEN 0
        ELSE BaseTypeReadWidth(base_type.val, 64)

SliceDataPtrReadWidth(self, length_script) ==
    LET member == DebugStructure_member_named(self, "data_ptr")
        pointer == DebugStructureMember_pointer(member.val)
    IN  IF Len(self.structure.members) # 2
            \/ ~DebugStructure_as_slice_length(self, length_script).val.ok
            \/ ~member.ok \/ ~pointer.ok
        THEN 0
        ELSE PointerReadWidth(pointer.val)

\* An as_slice that follows data_ptr before it reads the length: what C19
\* must tell apart from the code.
DebugStructure_as_slice_data_ptr_first(self, length_script, data_ptr_script) ==
    LET length == DebugStructure_as_slice_length(self, length_script)
        data_ptr == DebugStructure_as_slice_data_ptr(self, data_ptr_script)
    IN  IF Len(self.structure.members) # 2
        THEN [val |-> Err([tag |-> "NotRustSice", owner |-> self.structure.name]),
              log |-> <<>>]
        ELSE IF ~length.val.ok THEN [val |-> length.val, log |-> length.log]
        ELSE IF ~data_ptr.val.ok
        THEN [val |-> data_ptr.val, log |-> data_ptr.log \o length.log]
        ELSE [val |-> Ok([type |-> "DebugSlice",
                          location |-> data_ptr.val.val.location,
                          offset |-> self.offset,
                          length |-> length.val.val,
                          data_ptr |-> data_ptr.val.val.pointer,
                          parent_name |-> self.structure.name]),
              log |-> data_ptr.log \o length.log]

\* DebugStructure::as_slice, with the reader's answers to the read of the
\* length and to the read of the pointer.
DebugStructure_as_slice(self, length_script, data_ptr_script) ==
    LET length == DebugStructure_as_slice_length(self, length_script)
        data_ptr == DebugStructure_as_slice_data_ptr(self, data_ptr_script)
    IN  IF Len(self.structure.members) # 2
        THEN [val |-> Err([tag |-> "NotRustSice", owner |-> self.structure.name]),
              log |-> <<>>]
        ELSE IF ~length.val.ok THEN [val |-> length.val, log |-> length.log]
        ELSE IF ~data_ptr.val.ok
        THEN [val |-> data_ptr.val, log |-> length.log \o data_ptr.log]
        ELSE [val |-> Ok([type |-> "DebugSlice",
                          location |-> data_ptr.val.val.location,
                          offset |-> self.offset,
                          length |-> length.val.val,
                          data_ptr |-> data_ptr.val.val.pointer,
                          parent_name |-> self.structure.name]),
              log |-> length.log \o data_ptr.log]

DebugSlice_base_type_iter(self) ==
    LET base_type == DebugInfo_base_type_from_item(self.data_ptr.kind)
        element_size == DebugInfo_size_from_item(self.data_ptr.kind)
    IN  IF IsNone(base_type)
        THEN Err([tag |-> "BaseTypeNotFound", owner |-> self.parent_name])
        ELSE IF IsNone(element_size)
        THEN Err([tag |-> "KindNotFound", owner |-> "<todo>", member |-> None])
        ELSE Ok([type |-> "DebugSliceBaseTypeIter", location |-> self.location,
                 offset |-> self.offset, length |-> self.length, current |-> 0,
                 size |-> Unwrap(element_size), base_type |-> Unwrap(base_type)])

\* `current >= length` of two u64: current stays below 2^32 in the model.
u64_ge(current, length) == length.hi = 0 /\ current >= length.lo

\* A next that steps through the elements byte by byte: what C18 must tell
\* apart from the code.
DebugSliceBaseTypeIter_next_unstrided(self) ==
    IF u64_ge(self.current, self.length) THEN [item |-> None, self |-> self]
    ELSE [item |-> Some([type |-> "DebugBaseType",
                         location |-> LocAdd(self.location, self.current),
                         offset |-> self.offset + self.current,
                         base_type |-> self.base_type]),
          self |-> [self EXCEPT !.current = self.current + 1]]

\* Iterator::next of DebugSliceBaseTypeIter: [item, self], the
\* Option<DebugBaseType> returned and the iterator as the call leaves it.
DebugSliceBaseTypeIter_next(self) ==
    IF u64_ge(self.current, self.length) THEN [item |-> None, self |-> self]
    ELSE [item |-> Some([type |-> "DebugBaseType",
                         location |-> LocAdd(self.location, self.size * self.current),
                         offset |-> self.offset + self.size * self.current,
                         base_type |-> self.base_type]),
          self |-> [self EXCEPT !.current = self.current + 1]]

DebugArray_iter(self) ==
    LET element_size == DebugInfo_size_from_item(self.array.kind)
    IN  IF IsNone(element_size)
        THEN Err([tag |-> "KindNotFound", owner |-> self.parent_name, member |-> None])
        ELSE Ok([type |-> "DebugArrayIterator", location |-> self.location,
                 offset |-> self.offset, array |-> self.array, index |-> 0,
                 count |-> self.array.count, element_size |-> Unwrap(element_size),
                 parent_name |-> self.parent_name])

\* Iterator::next: [item, self], the Option<DebugArrayItem> returned and
\* the iterator as the call leaves it.
DebugArrayIterator_next(self) ==
    IF self.index >= self.count THEN [item |-> None, self |-> self]
    ELSE [item |-> Some([type |-> "DebugArrayItem",
                         location |-> LocAdd(self.location,
                                             self.element_size * self.index),
                         offset |-> self.offset,
                         kind |-> self.array.kind,
                         parent_name |-> self.parent_name]),
          self |-> [self EXCEPT !.index = self.index + 1]]

\* The width of the read that DebugArrayItem::u8 issues; 0: none.
ArrayItemReadWidth(self) ==
    LET base_type == DebugInfo_base_type_from_item(self.kind)
    IN  IF IsSome(self.location) /\ IsSome(base_type) /\ Unwrap(base_type).size = 1
        THEN 1 ELSE 0

DebugArrayItem_u8(self, script) ==
    IF ArrayItemReadWidth(self) = 0 THEN [val |-> None, log |-> <<>>]
    ELSE LET r == Read_read_uN(Unwrap(self.location), 1, script)
         IN  [val |-> IF r.val.ok THEN Some(r.val.val) ELSE None, log |-> r.log]

DebugArrayItem_structure(self) ==
    LET structure == DebugInfo_structure_from_item(self.kind)
    IN  IF IsSome(structure)
        THEN Ok(DebugStructure(self.location, self.offset, Unwrap(structure)))
        ELSE Err([tag |-> "StructureNotFound", owner |-> self.parent_name])


----------------------------------------------------------------------------
(* Name splitting, src/src/lib.rs.  A &str is a sequence of one-character  *)
(* strings; a byte index i of the code is the position i + 1 here.          *)

is_ascii_alphabetic(c) == c \in {"a", "d", "y", "n"}

str_starts_with(s, prefix) ==
    Len(s) >= Len(prefix) /\ SubSeq(s, 1, Len(prefix)) = prefix

\* A find that never finds: what C10's amended statement must tell apart
\* from the code.
str_find_nothing(s, c) == None

\* str::find(char): the first position of c, if any.
str_find(s, c) ==
    LET at == {i \in 1..Len(s) : s[i] = c}
    IN  IF at = {} THEN None ELSE Some(CHOOSE i \in at : \A j \in at : i <= j)

\* str::rfind("::"): the last position at which "::" starts, if any.
str_rfind_separator(s) ==
    LET at == {i \in 1..(Len(s) - 1) : s[i] = ":" /\ s[i + 1] = ":"}
    IN  IF at = {} THEN None ELSE Some(CHOOSE i \in at : \A j \in at : j <= i)

\* A split_at that loses the character before the split: what C9 must
\* tell apart from the code.
str_split_at_lossy(s, mid) ==
    <<SubSeq(s, 1, mid - 2), SubSeq(s, mid, Len(s))>>

\* str::split_at: the part before position mid and the part from it on.
str_split_at(s, mid) ==
    <<SubSeq(s, 1, mid - 1), SubSeq(s, mid, Len(s))>>

split_namespace_and_name(name) ==
    IF Len(name) > 0 /\ ~is_ascii_alphabetic(name[1]) /\ name[1] # "_"
    THEN <<<<>>, name>>
    ELSE IF str_starts_with(name, <<"d", "y", "n", " ">>)
    THEN <<<<>>, name>>
    ELSE LET open_bracket_index == str_find(name, "<")
             kind_without_generic ==
                IF IsSome(open_bracket_index)
                THEN str_split_at(name, Unwrap(open_bracket_index))[1]
                ELSE name
             separator_index == str_rfind_separator(kind_without_generic)
         IN  IF IsSome(separator_index)
             THEN LET namespace == str_split_at(name, Unwrap(separator_index))[1]
                      rest == str_split_at(name, Unwrap(separator_index))[2]
                  IN  <<namespace, str_split_at(rest, 3)[2]>>
             ELSE <<<<>>, name>>

----------------------------------------------------------------------------
(* The lookups of a type by its qualified name, src/src/lib.rs.            *)

\* Structure::namespace, Enumeration::namespace and Union::namespace: the
\* namespace the entity was declared in, as the registry keeps it.
Entity_namespace(entity) == entity.namespace

\* The loop over symbol_unit_mapping of the *_from_type_at_address: the
\* items of the map of that kind whose entity has that namespace and
\* name.  The loop returns at the first of them that the HashMap yields.
TypeMatches(field, namespace, name) ==
    {item \in DOMAIN info.symbol_unit_mapping :
        LET entity == FromItem(field, item)
        IN  /\ IsSome(entity)
            /\ Entity_namespace(Unwrap(entity)) = namespace
            /\ Unwrap(entity).name = name}

\* DebugInfo::structure_from_type_at_address: the results that the order
\* of the HashMap allows.
DebugInfo_structure_from_type_at_address(qualified_name, address) ==
    LET split == split_namespace_and_name(qualified_name)
        matches == TypeMatches("structures", split[1], split[2])
    IN  IF split[1] = <<>> \/ matches = {}
        THEN {Err([tag |-> "StructureNotFound", owner |-> qualified_name])}
        ELSE {Ok(DebugStructure(Some(address), 0,
                                Unwrap(DebugInfo_structure_from_item(item)))) :
                    item \in matches}

DebugInfo_enumeration_from_type_at_address(qualified_name, address) ==
    LET split == split_namespace_and_name(qualified_name)
        matches == TypeMatches("enumerations", split[1], split[2])
    IN  IF split[1] = <<>>
        THEN {Err([tag |-> "StructureNotFound", owner |-> qualified_name])}
        ELSE IF matches = {}
        THEN {Err([tag |-> "EnumerationNotFound", owner |-> qualified_name])}
        ELSE {Ok(DebugEnumeration(Some(address), 0,
                                  Unwrap(DebugInfo_enumeration_from_item(item)))) :
                    item \in matches}

\* DebugUnion::new
DebugUnion(location, offset, union) ==
    [type |-> "DebugUnion", location |-> location, offset |-> offset,
     union |-> union]

DebugInfo_union_from_type_at_address(qualified_name, address) ==
    LET split == split_namespace_and_name(qualified_name)
        matches == TypeMatches("unions", split[1], split[2])
    IN  IF split[1] = <<>>
        THEN {Err([tag |-> "StructureNotFound", owner |-> qualified_name])}
        ELSE IF matches = {}
        THEN {Err([tag |-> "UnionNotFound", owner |-> qualified_name])}
        ELSE {Ok(DebugUnion(Some(address), 0,
                            Unwrap(DebugInfo_union_from_item(item)))) :
                    item \in matches}

----------------------------------------------------------------------------
(* Operations as steps: the operation is applied to the cursor at the end  *)
(* of the trail; an Ok cursor is appended to the trail.  The operations    *)
(* are functions of the cursor, the registry and the reader's answers, so  *)
(* calling again on a cursor after an Err or after a value reaches nothing *)
(* that the call from the same cursor did not: a run goes on only from a   *)
(* cursor just obtained.                                                    *)

Cursor == trail[Len(trail)].cursor

NoRead == <<>>

\* The call record: the method, its argument, the cursor it was called on,
\* and whether the caller holds a new cursor to go on from.
Call(op, arg, live) == [op |-> op, arg |-> arg, self |-> Cursor, live |-> live]

\* A call: cursor is the new cursor the caller holds after it, if any.
StepTo(op, arg, val, log, cursor) ==
    /\ last.live
    /\ last' = Call(op, arg, IsSome(cursor))
    /\ result' = val
    /\ reads' = log
    /\ trail' = IF IsSome(cursor)
                THEN Append(trail, [op |-> op, cursor |-> Unwrap(cursor)])
                ELSE trail
    /\ UNCHANGED <<info, kind, dwarf>>

\* A method that returns Result<cursor, DebugTypeError>.
Step(op, arg, val, log) ==
    StepTo(op, arg, val, log, IF val.ok THEN Some(val.val) ELSE None)

\* A method that returns a value and no cursor.
ValueStep(op, arg, val, log) == StepTo(op, arg, val, log, None)

\* The state in which a root cursor has just been obtained.
Rooted(op, cursor) ==
    /\ trail = <<[op |-> op, cursor |-> cursor]>>
    /\ last = [op |-> op, arg |-> 0, self |-> cursor, live |-> TRUE]
    /\ result = Ok(cursor)
    /\ reads = NoRead
    /\ kind = <<>>
    /\ dwarf = <<>>

----------------------------------------------------------------------------
(* SpecEnum: the lookups on an enumeration cursor, over every small        *)
(* enumeration.  SpecEnumRead: variant(reader), over every discriminant    *)
(* size and every answer of the reader.                                     *)

VariantNames == {"A", "B"}
PayloadOffsets == {0, 4}
DiscriminantSizes == {1, 2, 3, 4, 8}
EnumLocations == {16, 32}

EnumItem == 1
DiscriminantItem == 2
\* The payload structure of a variant is registered under PayloadItem(name).
PayloadItem(name) == IF name = "A" THEN 3 ELSE 4

Discriminants == {None} \cup {Some(d) : d \in 0..MaxDiscriminant}

EnumerationVariants(offsets) ==
    {[name |-> n, discriminant |-> d, kind |-> PayloadItem(n), offset |-> o] :
        n \in VariantNames, d \in Discriminants, o \in offsets}

EnumUnit(variants, size) ==
    [EmptyUnit EXCEPT
        !.enumerations = EnumItem :>
            [name |-> "E", size |-> 16, discriminant_kind |-> DiscriminantItem,
             discriminant_offset |-> 0, variants |-> variants],
        !.base_types = DiscriminantItem :> [name |-> "tag", size |-> size],
        !.structures =
            (3 :> [name |-> "A", size |-> 4, members |-> <<>>, containing_type |-> None])
            @@ (4 :> [name |-> "B", size |-> 4, members |-> <<>>, containing_type |-> None])]

\* The registry holds the enumeration; the root cursor is the one that
\* DebugEnumeration::new builds for enumeration_from_type_at_address.
InitEnumOver(offsets, sizes, addresses) ==
    /\ \E variants \in SeqsUpTo(EnumerationVariants(offsets), MaxVariants),
          size \in sizes :
            info = DebugInfo_load(<<EnumUnit(variants, size)>>)
    /\ \E address \in addresses :
            Rooted("enumeration_from_type_at_address",
                   DebugEnumeration(Some(address), 0,
                        Unwrap(DebugInfo_enumeration_from_item(EnumItem))))

InitEnum == InitEnumOver(PayloadOffsets, {1}, EnumLocations)

InitEnumRead == InitEnumOver({4}, DiscriminantSizes, {16})

EnumVariantWithDiscriminant ==
    /\ Cursor.type = "DebugEnumeration"
    /\ \E d \in 0..(MaxDiscriminant + 1) :
        Step("variant_with_discriminant", d,
             DebugEnumeration_variant_with_discriminant(Cursor, U64(d, 0)), NoRead)

EnumVariantNamed ==
    /\ Cursor.type = "DebugEnumeration"
    /\ \E name \in VariantNames \cup {"Z"} :
        Step("variant_named", name, DebugEnumeration_variant_named(Cursor, name), NoRead)

\* variants(), and the caller taking the i-th cursor of the vector.
EnumVariants ==
    /\ Cursor.type = "DebugEnumeration"
    /\ LET all == DebugEnumeration_variants(Cursor)
       IN  \E i \in 1..Len(all.val) : Step("variants", i, Ok(all.val[i]), NoRead)

EnumVariant ==
    /\ Cursor.type = "DebugEnumeration"
    /\ \E script \in ByteScripts(DiscriminantReadWidth(Cursor)) :
        LET r == DebugEnumeration_variant(Cursor, script)
        IN  Step("variant", script, r.val, r.log)

VariantStructure ==
    /\ Cursor.type = "DebugEnumerationVariant"
    /\ Step("structure", 0, DebugEnumerationVariant_structure(Cursor), NoRead)

NextEnum ==
    \/ EnumVariantWithDiscriminant
    \/ EnumVariantNamed
    \/ EnumVariants
    \/ VariantStructure

SpecEnum == InitEnum /\ [][NextEnum]_vars

NextEnumRead ==
    \/ EnumVariant
    \/ VariantStructure

SpecEnumRead == InitEnumRead /\ [][NextEnumRead]_vars

----------------------------------------------------------------------------
(* Spec: a variable of structure type, three structures deep, walked with  *)
(* member_named, the kind accessors and as_u8 .. as_u64, over every small  *)
(* layout and every answer of the reader.                                   *)

MaxOffset == 2

Offsets == 0..MaxOffset
BaseSizes == {1, 2, 3, 4, 8}
VarLocation == 64
MemberNames == {"next", "b", "zz"}
Bits == {8, 16, 32, 64}

VarItem == 10
OuterItem == 11
MiddleItem == 12
InnerItem == 13
BaseItem == 20

Member(name, kind_item, offset) ==
    [name |-> Some(name), kind |-> kind_item, offset |-> offset]

Struct(name, members) ==
    [name |-> name, size |-> 16, members |-> members, containing_type |-> None]

\* static V: Outer; Outer { next: Middle, b }, Middle { next: Inner, b },
\* Inner { b }: next at o1 and o2, b at ob, b of the base type of that size.
NavUnit(o1, o2, ob, size) ==
    [EmptyUnit EXCEPT
        !.variables = VarItem :>
            [name |-> "V", kind |-> OuterItem, location |-> VarLocation],
        !.structures =
            (OuterItem :> Struct("Outer", <<Member("next", MiddleItem, o1),
                                            Member("b", BaseItem, ob)>>))
            @@ (MiddleItem :> Struct("Middle", <<Member("next", InnerItem, o2),
                                                 Member("b", BaseItem, ob)>>))
            @@ (InnerItem :> Struct("Inner", <<Member("b", BaseItem, ob)>>)),
        !.base_types = BaseItem :> [name |-> "word", size |-> size]]

\* The root cursor is the DebugVariable of variable_from_demangled_name.
Init ==
    /\ \E o1 \in Offsets, o2 \in Offsets, ob \in Offsets, size \in BaseSizes :
            info = DebugInfo_load(<<NavUnit(o1, o2, ob, size)>>)
    /\ Rooted("variable_from_demangled_name",
              DebugVariable(info.units[1].variables[VarItem]))

VariableStructure ==
    /\ Cursor.type = "DebugVariable"
    /\ Step("variable_structure", 0, DebugVariable_structure(Cursor), NoRead)

MemberNamed ==
    /\ Cursor.type = "DebugStructure"
    /\ \E name \in MemberNames :
        Step("member_named", name, DebugStructure_member_named(Cursor, name), NoRead)

MemberStructure ==
    /\ Cursor.type = "DebugStructureMember"
    /\ Step("member_structure", 0, DebugStructureMember_structure(Cursor), NoRead)

MemberBaseType ==
    /\ Cursor.type = "DebugStructureMember"
    /\ Step("member_base_type", 0, DebugStructureMember_base_type(Cursor), NoRead)

MemberPointer ==
    /\ Cursor.type = "DebugStructureMember"
    /\ Step("member_pointer", 0, DebugStructureMember_pointer(Cursor), NoRead)

MemberArray ==
    /\ Cursor.type = "DebugStructureMember"
    /\ Step("member_array", 0, DebugStructureMember_array(Cursor), NoRead)

BaseTypeAsUN ==
    /\ Cursor.type = "DebugBaseType"
    /\ \E bits \in Bits :
        \E script \in ByteScripts(BaseTypeReadWidth(Cursor, bits)) :
            LET r == DebugBaseType_as_uN(Cursor, bits, script)
            IN  ValueStep("as_u", bits, r.val, r.log)

Next ==
    \/ VariableStructure
    \/ MemberNamed
    \/ MemberStructure
    \/ MemberBaseType
    \/ BaseTypeAsUN

Spec == Init /\ [][Next]_vars

----------------------------------------------------------------------------
(* SpecPointer: a variable of structure type that holds a pointer to a     *)
(* second structure; the pointer is followed with follow,                  *)
(* follow_unless_null and try_follow over every answer of the reader, and  *)
(* the walk goes on in the pointee.                                         *)

MaxFollows == 1

PointerItem == 30

\* static V: Node; Node { next: *Leaf, b: u8 }, Leaf { b: u8 }.
PointerUnit(o1, ob) ==
    [EmptyUnit EXCEPT
        !.variables = VarItem :>
            [name |-> "V", kind |-> OuterItem, location |-> VarLocation],
        !.structures =
            (OuterItem :> Struct("Node", <<Member("next", PointerItem, o1),
                                           Member("b", BaseItem, ob)>>))
            @@ (InnerItem :> Struct("Leaf", <<Member("b", BaseItem, ob)>>)),
        !.pointers = PointerItem :> [name |-> Some("*Leaf"), kind |-> InnerItem],
        !.base_types = BaseItem :> [name |-> "u8", size |-> 1]]

InitPointer ==
    /\ \E o1 \in Offsets, ob \in Offsets :
            info = DebugInfo_load(<<PointerUnit(o1, ob)>>)
    /\ Rooted("variable_from_demangled_name",
              DebugVariable(info.units[1].variables[VarItem]))

\* The number of times the pointer at the end of the trail was followed.
Follows ==
    Cardinality({i \in 1..Len(trail) :
                    trail[i].op \in {"follow", "follow_unless_null", "try_follow"}})

PointerStructure ==
    /\ Cursor.type = "DebugPointer"
    /\ Step("pointer_structure", 0, DebugPointer_structure(Cursor), NoRead)

PointerFollow ==
    /\ Cursor.type = "DebugPointer"
    /\ Follows < MaxFollows
    /\ \E script \in ByteScripts(PointerReadWidth(Cursor)) :
        LET r == DebugPointer_follow(Cursor, script)
        IN  Step("follow", script, r.val, r.log)

PointerFollowUnlessNull ==
    /\ Cursor.type = "DebugPointer"
    /\ Follows < MaxFollows
    /\ \E script \in ByteScripts(PointerReadWidth(Cursor)) :
        LET r == DebugPointer_follow_unless_null(Cursor, script)
        IN  Step("follow_unless_null", script, r.val, r.log)

PointerTryFollow ==
    /\ Cursor.type = "DebugPointer"
    /\ Follows < MaxFollows
    /\ \E script \in ByteScripts(PointerReadWidth(Cursor)) :
        LET r == DebugPointer_try_follow(Cursor, script)
        IN  StepTo("try_follow", script, r.val, r.log,
                   IF r.val.ok THEN r.val.val ELSE None)

NextPointer ==
    \/ VariableStructure
    \/ MemberNamed
    \/ MemberStructure
    \/ MemberPointer
    \/ MemberBaseType
    \/ PointerStructure
    \/ PointerFollow
    \/ PointerFollowUnlessNull
    \/ PointerTryFollow
    \/ BaseTypeAsUN

SpecPointer == InitPointer /\ [][NextPointer]_vars

----------------------------------------------------------------------------
(* SpecArray: a variable of structure type that holds an array; the array  *)
(* is iterated, next being called up to twice past the end, and the items  *)
(* are opened.  The iterator is the cursor at the end of the trail, which  *)
(* next advances in place; the item it yields is the result.                *)

MaxCount == 2

ArrayItem == 40
ElementKinds == {BaseItem, InnerItem, PointerItem}

\* static V: Table; Table { next: Leaf, b: [Element; count] }.
ArrayUnit(ob, count, element, size) ==
    [EmptyUnit EXCEPT
        !.variables = VarItem :>
            [name |-> "V", kind |-> OuterItem, location |-> VarLocation],
        !.structures =
            (OuterItem :> Struct("Table", <<Member("next", InnerItem, 0),
                                            Member("b", ArrayItem, ob)>>))
            @@ (InnerItem :> Struct("Leaf", <<Member("b", BaseItem, 0)>>)),
        !.arrays = ArrayItem :> [kind |-> element, lower_bound |-> 0, count |-> count],
        !.pointers = PointerItem :> [name |-> Some("*Leaf"), kind |-> InnerItem],
        !.base_types = BaseItem :> [name |-> "word", size |-> size]]

InitArray ==
    /\ \E ob \in Offsets, count \in 0..MaxCount, element \in ElementKinds,
          size \in {1, 4} :
            info = DebugInfo_load(<<ArrayUnit(ob, count, element, size)>>)
    /\ Rooted("variable_from_demangled_name",
              DebugVariable(info.units[1].variables[VarItem]))

ArrayIter ==
    /\ Cursor.type = "DebugArray"
    /\ Step("iter", 0, DebugArray_iter(Cursor), NoRead)

\* next(); arg counts the calls of next made on the iterator before.
ArrayIteratorNext ==
    /\ Cursor.type = "DebugArrayIterator"
    /\ last.op \in {"iter", "next"}
    /\ LET calls == IF last.op = "next" THEN last.arg + 1 ELSE 0
           r == DebugArrayIterator_next(Cursor)
       IN  /\ calls < Cursor.count + 2
           /\ last' = Call("next", calls, TRUE)
           /\ result' = r.item
           /\ reads' = NoRead
           /\ trail' = [trail EXCEPT ![Len(trail)].cursor = r.self]
    /\ UNCHANGED <<info, kind, dwarf>>

\* structure() on the item that next has just yielded.
ArrayItemStructure ==
    /\ last.op = "next"
    /\ IsSome(result)
    /\ last' = [op |-> "item_structure", arg |-> 0, self |-> Unwrap(result),
                live |-> FALSE]
    /\ result' = DebugArrayItem_structure(Unwrap(result))
    /\ reads' = NoRead
    /\ UNCHANGED <<info, trail, kind, dwarf>>

\* u8(reader) on the item that next has just yielded.
ArrayItemU8 ==
    /\ last.op = "next"
    /\ IsSome(result)
    /\ \E script \in ByteScripts(ArrayItemReadWidth(Unwrap(result))) :
        LET r == DebugArrayItem_u8(Unwrap(result), script)
        IN  /\ last' = [op |-> "item_u8", arg |-> script, self |-> Unwrap(result),
                        live |-> FALSE]
            /\ result' = r.val
            /\ reads' = r.log
    /\ UNCHANGED <<info, trail, kind, dwarf>>

NextArray ==
    \/ VariableStructure
    \/ MemberNamed
    \/ MemberArray
    \/ ArrayIter
    \/ ArrayIteratorNext
    \/ ArrayItemStructure
    \/ ArrayItemU8

SpecArray == InitArray /\ [][NextArray]_vars

----------------------------------------------------------------------------
(* SpecSplit: split_namespace_and_name over every short name.               *)

MaxLen == 6

Chars == {"a", "_", ":", "<", ">"}
Prefixes == {<<>>, <<"d", "y", "n", " ">>}
Kinds == {prefix \o body : prefix \in Prefixes, body \in SeqsUpTo(Chars, MaxLen)}

InitSplit ==
    /\ info = DebugInfo_load(<<>>)
    /\ trail = <<>>
    /\ kind \in Kinds
    /\ last = [op |-> "kind", arg |-> 0, self |-> 0, live |-> TRUE]
    /\ result = None
    /\ reads = NoRead
    /\ dwarf = <<>>

Split ==
    /\ last.op = "kind"
    /\ last' = [op |-> "split_namespace_and_name", arg |-> kind, self |-> 0,
                live |-> FALSE]
    /\ result' = split_namespace_and_name(kind)
    /\ UNCHANGED <<info, trail, reads, kind, dwarf>>

NextSplit == Split

SpecSplit == InitSplit /\ [][NextSplit]_vars

----------------------------------------------------------------------------
(* SpecLoad: DebugInfo::load over every small object file, unit by unit,   *)
(* the offsets of its entries not assumed distinct; size_from_item on the  *)
(* registry it builds.                                                      *)

MaxEntries == 2

Tags == {"DW_TAG_variable", "DW_TAG_structure_type", "DW_TAG_variant_part",
         "DW_TAG_union_type", "DW_TAG_array_type", "DW_TAG_pointer_type",
         "DW_TAG_base_type"}
EntryOffsets == {1, 2}
UnregisteredItem == 9
EntitySizes == {4, 8}

\* The entry of that tag at that offset, as parsed.
LoadEntry(tag, offset, size) ==
    IF tag = "DW_TAG_variable"
    THEN [tag |-> tag, offset |-> offset, name |-> Some("X"), parents |-> <<>>,
          kind |-> Some(UnregisteredItem), location |-> Some(VarLocation),
          linkage_name |-> None]
    ELSE [tag |-> tag, offset |-> offset,
          entity |->
            CASE tag = "DW_TAG_structure_type" ->
                    [name |-> "S", size |-> size, members |-> <<>>,
                     containing_type |-> None]
              [] tag = "DW_TAG_variant_part" ->
                    [name |-> "E", size |-> size + 1, discriminant_kind |-> 0,
                     discriminant_offset |-> 0, variants |-> <<>>]
              [] tag = "DW_TAG_union_type" ->
                    [name |-> "U", size |-> size + 2, members |-> <<>>]
              [] tag = "DW_TAG_array_type" ->
                    [kind |-> UnregisteredItem, lower_bound |-> 0, count |-> 1]
              [] tag = "DW_TAG_pointer_type" ->
                    [name |-> None, kind |-> UnregisteredItem]
              [] tag = "DW_TAG_base_type" -> [name |-> "B", size |-> size + 3]]

\* The object files of one unit or two with MaxEntries entries in all.
Objects(size) ==
    LET Entries == {LoadEntry(tag, offset, size) : tag \in Tags, offset \in EntryOffsets}
        Units == SeqsUpTo(Entries, MaxEntries)
    IN  {<<u>> : u \in Units}
            \cup {o \in Units \X Units : Len(o[1]) + Len(o[2]) <= MaxEntries}

Loading(op) == [op |-> op, arg |-> 0, self |-> 0, live |-> TRUE]

InitLoadOver(objects) ==
    /\ dwarf \in objects
    /\ info = [units |-> <<>>, symbol_unit_mapping |-> EmptyMap]
    /\ trail = <<>>
    /\ last = Loading("load")
    /\ result = None
    /\ reads = NoRead
    /\ kind = <<>>

InitLoad == InitLoadOver(UNION {Objects(size) : size \in EntitySizes})

\* One turn of the loop over the units; a failing assert! ends the build.
LoadUnit ==
    /\ last.op = "load"
    /\ Len(info.units) < Len(dwarf)
    /\ LET r == DebugInfo_load_unit(info, dwarf[Len(info.units) + 1])
       IN  /\ info' = r.info
           /\ last' = Loading(IF r.panicked THEN "panic" ELSE "load")
    /\ UNCHANGED <<trail, result, reads, kind, dwarf>>

\* Ok(DebugInfo { units, symbol_unit_mapping })
LoadDone ==
    /\ last.op = "load"
    /\ Len(info.units) = Len(dwarf)
    /\ last' = Loading("loaded")
    /\ result' = Ok(info)
    /\ UNCHANGED <<info, trail, reads, kind, dwarf>>

SizeFromItem ==
    /\ last.op = "loaded"
    /\ \E item \in EntryOffsets \cup {UnregisteredItem} :
        /\ last' = [op |-> "size_from_item", arg |-> item, self |-> 0, live |-> FALSE]
        /\ result' = DebugInfo_size_from_item(item)
    /\ UNCHANGED <<info, trail, reads, kind, dwarf>>

NextLoad ==
    \/ LoadUnit
    \/ LoadDone
    \/ SizeFromItem

SpecLoad == InitLoad /\ [][NextLoad]_vars

----------------------------------------------------------------------------
(* SpecVars: DebugInfo::load over object files of one unit or two whose    *)
(* entries are variables, in and out of a namespace, with every kind of    *)
(* linkage name; then the lookups of a variable by name and by item.        *)

MaxVars == 2

Namespaces == {<<>>, <<"m">>}
LinkagePaths == {<<"X">>, <<"m", "X">>, <<"", "X">>}
LinkageNames ==
    {None} \cup {Some(Text(path)) : path \in LinkagePaths}
           \cup {Some(Mangled(path)) : path \in {<<"X">>, <<"m", "X">>}}

\* The names a caller may ask for.
LookupNames ==
    {Text(path) : path \in LinkagePaths} \cup {Mangled(path) : path \in LinkagePaths}

VariableEntry(parents, linkage_name) ==
    [tag |-> "DW_TAG_variable", offset |-> 0, name |-> Some("X"),
     parents |-> parents, kind |-> Some(0), location |-> Some(VarLocation),
     linkage_name |-> linkage_name]

\* The e-th entry of the u-th unit is at its own offset and of its own type.
Placed(unit, u) ==
    [e \in 1..Len(unit) |->
        [unit[e] EXCEPT !.offset = 10 * u + e, !.kind = Some(100 + 10 * u + e)]]

VariableObjects ==
    LET Entries == {VariableEntry(parents, linkage_name) :
                        parents \in Namespaces, linkage_name \in LinkageNames}
        Units == SeqsUpTo(Entries, MaxVars)
    IN  {<<Placed(u, 1)>> : u \in Units \ {<<>>}}
            \cup {<<Placed(o[1], 1), Placed(o[2], 2)>> :
                    o \in {o \in (Units \ {<<>>}) \X (Units \ {<<>>}) :
                                Len(o[1]) + Len(o[2]) <= MaxVars}}

InitVars == InitLoadOver(VariableObjects)

Asked(op, arg) == [op |-> op, arg |-> arg, self |-> 0, live |-> FALSE]

VariableFromName ==
    /\ last.op = "loaded"
    /\ \E path \in LookupNames :
        /\ last' = Asked("variable_from_name", path)
        /\ result' = DebugInfo_variable_from_name(path)
    /\ UNCHANGED <<info, trail, reads, kind, dwarf>>

VariableFromDemangledName ==
    /\ last.op = "loaded"
    /\ \E path \in LookupNames :
        /\ last' = Asked("variable_from_demangled_name", path)
        /\ result' = DebugInfo_variable_from_demangled_name(path)
    /\ UNCHANGED <<info, trail, reads, kind, dwarf>>

VariableFromItem ==
    /\ last.op = "loaded"
    /\ \E u \in 1..2, e \in 1..MaxVars :
        /\ last' = Asked("variable_from_item", 10 * u + e)
        /\ result' = DebugInfo_variable_from_item(10 * u + e)
    /\ UNCHANGED <<info, trail, reads, kind, dwarf>>

NextVars ==
    \/ LoadUnit
    \/ LoadDone
    \/ VariableFromName
    \/ VariableFromDemangledName
    \/ VariableFromItem

SpecVars == InitVars /\ [][NextVars]_vars

----------------------------------------------------------------------------
(* SpecMember: a variable of structure type with a member of every kind of *)
(* entity; the member is taken under each of the six kinds, and members    *)
(* are looked up by name in the structure and in a union.                  *)

UnionItem == 50

\* The items a member may refer to: one of each kind, and one not registered.
MemberKinds ==
    {InnerItem, EnumItem, PointerItem, ArrayItem, UnionItem, BaseItem, UnregisteredItem}

\* static V: Holder; Holder { next: <member_kind>, b: word }, and one entity
\* of each kind: Leaf { b }, enum E, *Leaf, [word; 1], union Pair { next, b }.
MemberUnit(member_kind, o1, ob) ==
    [EmptyUnit EXCEPT
        !.variables = VarItem :>
            [name |-> "V", kind |-> OuterItem, location |-> VarLocation],
        !.structures =
            (OuterItem :> Struct("Holder", <<Member("next", member_kind, o1),
                                             Member("b", BaseItem, ob)>>))
            @@ (InnerItem :> Struct("Leaf", <<Member("b", BaseItem, ob)>>)),
        !.enumerations = EnumItem :>
            [name |-> "E", size |-> 16, discriminant_kind |-> BaseItem,
             discriminant_offset |-> 0, variants |-> <<>>],
        !.pointers = PointerItem :> [name |-> Some("*Leaf"), kind |-> InnerItem],
        !.arrays = ArrayItem :> [kind |-> BaseItem, lower_bound |-> 0, count |-> 1],
        !.unions = UnionItem :>
            [name |-> "Pair", size |-> 4,
             members |-> <<Member("next", BaseItem, 0), Member("b", BaseItem, 0)>>],
        !.base_types = BaseItem :> [name |-> "word", size |-> 4]]

InitMember ==
    /\ \E member_kind \in MemberKinds, o1 \in Offsets, ob \in Offsets :
            info = DebugInfo_load(<<MemberUnit(member_kind, o1, ob)>>)
    /\ Rooted("variable_from_demangled_name",
              DebugVariable(info.units[1].variables[VarItem]))

MemberEnumeration ==
    /\ Cursor.type = "DebugStructureMember"
    /\ Step("member_enumeration", 0, DebugStructureMember_enumeration(Cursor), NoRead)

MemberUnion ==
    /\ Cursor.type = "DebugStructureMember"
    /\ Step("member_union", 0, DebugStructureMember_union(Cursor), NoRead)

UnionMemberNamed ==
    /\ Cursor.type = "DebugUnion"
    /\ \E name \in MemberNames :
        Step("union_member_named", name, DebugUnion_member_named(Cursor, name), NoRead)

NextMember ==
    \/ VariableStructure
    \/ MemberNamed
    \/ MemberStructure
    \/ MemberEnumeration
    \/ MemberPointer
    \/ MemberArray
    \/ MemberUnion
    \/ MemberBaseType
    \/ UnionMemberNamed

SpecMember == InitMember /\ [][NextMember]_vars

----------------------------------------------------------------------------
(* SpecSlice: a variable of a structure type of up to MaxMembers members,  *)
(* taken as a slice and iterated.                                          *)

MaxMembers == 3
MaxNexts == 3

LengthItem == 21
SliceMemberNames == {"length", "data_ptr", "zz"}
LengthSizes == {1, 2, 3}
ElementSizes == {1, 4}

\* The members are laid out one word after the other.
SliceMember(i, shape) == Member(shape[1], shape[2], 4 * (i - 1))

SliceMembersUpTo(count) ==
    {[i \in 1..Len(shapes) |-> SliceMember(i, shapes[i])] :
        shapes \in SeqsUpTo(SliceMemberNames \X {LengthItem, PointerItem}, count)}

SliceMembers == SliceMembersUpTo(MaxMembers)

\* static V: Slice; Slice { members }, with the base type usize and the
\* pointer type *T to choose from, T the base type word or the structure Leaf.
SliceUnit(members, length_size, element, element_size) ==
    [EmptyUnit EXCEPT
        !.variables = VarItem :>
            [name |-> "V", kind |-> OuterItem, location |-> VarLocation],
        !.structures =
            (OuterItem :> Struct("Slice", members))
            @@ (InnerItem :> Struct("Leaf", <<Member("b", BaseItem, 0)>>)),
        !.pointers = PointerItem :> [name |-> Some("*T"), kind |-> element],
        !.base_types =
            (LengthItem :> [name |-> "usize", size |-> length_size])
            @@ (BaseItem :> [name |-> "word", size |-> element_size])]

InitSliceOver(shapes, elements, element_sizes) ==
    /\ \E members \in shapes, length_size \in LengthSizes,
          element \in elements, element_size \in element_sizes :
            info = DebugInfo_load(<<SliceUnit(members, length_size, element,
                                              element_size)>>)
    /\ Rooted("variable_from_demangled_name",
              DebugVariable(info.units[1].variables[VarItem]))

InitSlice == InitSliceOver(SliceMembers, {BaseItem, InnerItem}, ElementSizes)

StructureAsSlice ==
    /\ Cursor.type = "DebugStructure"
    /\ \E length_script \in ByteScripts(SliceLengthReadWidth(Cursor)) :
        \E data_ptr_script \in
                ByteScripts(SliceDataPtrReadWidth(Cursor, length_script)) :
            LET r == DebugStructure_as_slice(Cursor, length_script, data_ptr_script)
            IN  Step("as_slice", <<length_script, data_ptr_script>>, r.val, r.log)

SliceBaseTypeIter ==
    /\ Cursor.type = "DebugSlice"
    /\ Step("base_type_iter", 0, DebugSlice_base_type_iter(Cursor), NoRead)

\* next(); arg counts the calls of next made on the iterator before.
SliceIterNext ==
    /\ Cursor.type = "DebugSliceBaseTypeIter"
    /\ last.op \in {"base_type_iter", "slice_next"}
    /\ LET calls == IF last.op = "slice_next" THEN last.arg + 1 ELSE 0
           r == DebugSliceBaseTypeIter_next(Cursor)
       IN  /\ calls < MaxNexts
           /\ last' = Call("slice_next", calls, TRUE)
           /\ result' = r.item
           /\ reads' = NoRead
           /\ trail' = [trail EXCEPT ![Len(trail)].cursor = r.self]
    /\ UNCHANGED <<info, kind, dwarf>>

NextSlice ==
    \/ VariableStructure
    \/ StructureAsSlice
    \/ SliceBaseTypeIter
    \/ SliceIterNext

SpecSlice == InitSlice /\ [][NextSlice]_vars

----------------------------------------------------------------------------
(* SpecReads: the operations that call the reader, each from its own root: *)
(* variant on an enumeration, the follows on a pointer member, as_slice on *)
(* a structure, and the iteration of an array.                             *)

\* The structures of at most two members are those as_slice reads from.
InitReads ==
    \/ InitEnumRead
    \/ InitPointer
    \/ InitArray
    \/ InitSliceOver(SliceMembersUpTo(2), {BaseItem}, {1})

NextReads ==
    \/ EnumVariant
    \/ VariableStructure
    \/ MemberNamed
    \/ MemberPointer
    \/ MemberArray
    \/ PointerFollow
    \/ PointerFollowUnlessNull
    \/ PointerTryFollow
    \/ ArrayIter
    \/ ArrayIteratorNext
    \/ ArrayItemStructure
    \/ ArrayItemU8
    \/ StructureAsSlice

SpecReads == InitReads /\ [][NextReads]_vars

----------------------------------------------------------------------------
(* SpecUnbound: the operations that take a reader, called on cursors that  *)
(* have no location.  No constructor of the crate builds such a cursor;    *)
(* the cursors' location fields are Options, and the operations test them. *)

InitUnbound ==
    \/ /\ \E variants \in SeqsUpTo(EnumerationVariants({4}), MaxVariants),
             size \in DiscriminantSizes :
                info = DebugInfo_load(<<EnumUnit(variants, size)>>)
       /\ Rooted("unbound",
                 DebugEnumeration(None, 0,
                        Unwrap(DebugInfo_enumeration_from_item(EnumItem))))
    \/ /\ \E members \in SliceMembersUpTo(2), length_size \in LengthSizes :
                info = DebugInfo_load(<<SliceUnit(members, length_size, BaseItem, 1)>>)
       /\ Rooted("unbound",
                 DebugStructure(None, 0,
                        Unwrap(DebugInfo_structure_from_item(OuterItem))))

NextUnbound ==
    \/ EnumVariant
    \/ StructureAsSlice
    \/ MemberNamed
    \/ MemberPointer
    \/ PointerFollow
    \/ PointerFollowUnlessNull
    \/ PointerTryFollow

SpecUnbound == InitUnbound /\ [][NextUnbound]_vars

----------------------------------------------------------------------------
(* SpecWalk: UnitInfo::new over every small tree of DIEs, one DIE at a     *)
(* time.  dwarf is the sequence of DIEs that next_dfs() has yielded so     *)
(* far, the root DW_TAG_compile_unit first; the offset of a DIE is its     *)
(* position, so no two DIEs share a DebugItem and none is the item 0.      *)
(* result is the state of the walk after the last DIE of dwarf.            *)

MaxDies == 4

\* The item of the first DIE below the root.
FirstItem == 2

Die(tag) ==
    [depth_delta |-> 0, tag |-> tag, offset |-> 0, name |-> None,
     byte_size |-> None, type |-> None, location |-> None,
     lower_bound |-> None, count |-> None, discr_value |-> None,
     linkage_name |-> None, other |-> FALSE]

Named(tag, name) == [Die(tag) EXCEPT !.name = Some(name)]
Sized(tag, name, size) == [Named(tag, name) EXCEPT !.byte_size = Some(size)]
Typed(die) == [die EXCEPT !.type = TypeAttr("UnitRef", BaseItem)]

\* The DIEs that the trees of one family are made of.
DieFamilies == {"namespaces", "structures", "enumerations", "arrays", "forms"}
DiesOf(family) ==
    CASE family = "namespaces" ->
            {Named("DW_TAG_namespace", "a"), Named("DW_TAG_namespace", "b"),
             Die("DW_TAG_namespace"),
             [Typed(Named("DW_TAG_variable", "X")) EXCEPT
                    !.location = OffsetAttr("Exprloc", Some(VarLocation))]}
      [] family = "structures" ->
            {Sized("DW_TAG_structure_type", "S", 4),
             Sized("DW_TAG_structure_type", "T", 8),
             [Die("DW_TAG_structure_type") EXCEPT !.byte_size = Some(4)],
             Sized("DW_TAG_union_type", "U", 2),
             Die("DW_TAG_variant_part"),
             [Typed(Named("DW_TAG_member", "m")) EXCEPT
                    !.location = OffsetAttr("Udata", 1)]}
      [] family = "enumerations" ->
            {Sized("DW_TAG_base_type", "u8", 1),
             Sized("DW_TAG_structure_type", "E", 4),
             Die("DW_TAG_variant_part"),
             [Die("DW_TAG_member") EXCEPT !.type = TypeAttr("UnitRef", FirstItem),
                                          !.location = OffsetAttr("Udata", 0)],
             Named("DW_TAG_member", "v"),
             [Die("DW_TAG_variant") EXCEPT !.discr_value = Some(0)]}
      [] family = "arrays" ->
            {Typed(Die("DW_TAG_array_type")), Die("DW_TAG_array_type"),
             [Die("DW_TAG_subrange_type") EXCEPT !.lower_bound = Some(0),
                                                 !.count = Some(2)],
             [Die("DW_TAG_subrange_type") EXCEPT !.count = Some(2)]}
      [] family = "forms" ->
            {Sized("DW_TAG_structure_type", "S", 4),
             [Named("DW_TAG_member", "m") EXCEPT
                    !.type = TypeAttr("DebugTypesRef", BaseItem)],
             [Typed(Named("DW_TAG_member", "m")) EXCEPT
                    !.location = OffsetAttr("Sdata", 1)],
             Typed(Die("DW_TAG_pointer_type")),
             [Typed(Die("DW_TAG_pointer_type")) EXCEPT !.other = TRUE],
             Sized("DW_TAG_base_type", "u8", 1)}

Walking(op, family) == [op |-> op, arg |-> family, self |-> 0, live |-> TRUE]

InitWalk ==
    /\ \E family \in DieFamilies : last = Walking("walk", family)
    /\ dwarf = <<[Die("DW_TAG_compile_unit") EXCEPT !.offset = 1]>>
    /\ result = UnitInfo_new_die(WalkStart, dwarf[1])
    /\ info = [units |-> <<>>, symbol_unit_mapping |-> EmptyMap]
    /\ trail = <<>>
    /\ reads = NoRead
    /\ kind = <<>>

\* One turn of the loop: next_dfs() yields a child of the last DIE, a
\* sibling of it or a sibling of one of its ancestors below the root.
WalkDie ==
    /\ last.op = "walk"
    /\ Len(dwarf) <= MaxDies
    /\ \E template \in DiesOf(last.arg), depth_delta \in (1 - result.depth)..1 :
        LET die == [template EXCEPT !.depth_delta = depth_delta,
                                    !.offset = Len(dwarf) + 1]
            st == UnitInfo_new_die(result, die)
        IN  /\ dwarf' = Append(dwarf, die)
            /\ result' = st
            /\ last' = Walking(IF st.panicked THEN "panic" ELSE "walk", last.arg)
    /\ UNCHANGED <<info, trail, reads, kind>>

\* next_dfs() yields None: Some(Self { cache }), and the registry of the
\* one unit.
WalkDone ==
    /\ last.op = "walk"
    /\ last' = Walking("built", last.arg)
    /\ info' = DebugInfo_load(<<UnitInfo_new_cache(result)>>)
    /\ UNCHANGED <<trail, result, reads, kind, dwarf>>

\* DebugEnumeration::new on an enumeration of the unit, at a location.
WalkEnumeration ==
    /\ last.op = "built"
    /\ \E item \in DOMAIN info.units[1].enumerations :
        LET cursor == DebugEnumeration(Some(VarLocation), 0,
                                       info.units[1].enumerations[item])
        IN  /\ trail' = <<[op |-> "enumeration", cursor |-> cursor]>>
            /\ last' = [op |-> "enumeration", arg |-> item, self |-> cursor,
                        live |-> TRUE]
            /\ result' = Ok(cursor)
    /\ UNCHANGED <<info, reads, kind, dwarf>>

EnumDiscriminantSize ==
    /\ trail # <<>>
    /\ Cursor.type = "DebugEnumeration"
    /\ ValueStep("discriminant_size", 0,
                 DebugEnumeration_discriminant_size(Cursor), NoRead)

NextWalk ==
    \/ WalkDie
    \/ WalkDone
    \/ WalkEnumeration
    \/ EnumDiscriminantSize
    \/ (trail # <<>> /\ EnumVariant)

SpecWalk == InitWalk /\ [][NextWalk]_vars

----------------------------------------------------------------------------
(* SpecTypes: the lookups of a type by its qualified name, over the        *)
(* registries of two units with at most one structure, enumeration or      *)
(* union each, and over names with and without a namespace.                *)

TypeFields == {"structures", "enumerations", "unions"}
TypeSegments == {<<"a">>, <<"_">>}
QualifiedNames ==
    TypeSegments
        \cup {namespace \o <<":", ":">> \o name :
                    namespace \in TypeSegments, name \in TypeSegments}
        \cup {<<"<", "a">>, <<"a", ":", ":", "a", ":", ":", "a">>}
TypeAddresses == {16, 32}

\* A unit with no entity, or with one entity of that kind, namespace and
\* name under that item.
TypeUnits(item) ==
    {EmptyUnit}
        \cup {[EmptyUnit EXCEPT ![field] =
                    (item :> [name |-> name, namespace |-> namespace, size |-> 4,
                              members |-> <<>>, variants |-> <<>>,
                              discriminant_kind |-> 0, discriminant_offset |-> 0])] :
                field \in TypeFields, namespace \in TypeSegments \cup {<<"a", ":", ":", "a">>},
                name \in TypeSegments}

InitTypes ==
    /\ \E first \in TypeUnits(OuterItem), second \in TypeUnits(InnerItem) :
            info = DebugInfo_load(<<first, second>>)
    /\ kind \in QualifiedNames
    /\ trail = <<>>
    /\ last = [op |-> "kind", arg |-> 0, self |-> 0, live |-> TRUE]
    /\ result = None
    /\ reads = NoRead
    /\ dwarf = <<>>

\* A lookup by name: one of the results that the order of the map allows.
TypeAtAddress(op, address, results) ==
    /\ last.op = "kind"
    /\ \E r \in results :
        /\ last' = [op |-> op, arg |-> address, self |-> 0, live |-> r.ok]
        /\ result' = r
        /\ trail' = IF r.ok THEN <<[op |-> op, cursor |-> r.val]>> ELSE trail
    /\ UNCHANGED <<info, reads, kind, dwarf>>

StructureFromTypeAtAddress ==
    \E address \in TypeAddresses :
        TypeAtAddress("structure_from_type_at_address", address,
                      DebugInfo_structure_from_type_at_address(kind, address))

EnumerationFromTypeAtAddress ==
    \E address \in TypeAddresses :
        TypeAtAddress("enumeration_from_type_at_address", address,
                      DebugInfo_enumeration_from_type_at_address(kind, address))

UnionFromTypeAtAddress ==
    \E address \in TypeAddresses :
        TypeAtAddress("union_from_type_at_address", address,
                      DebugInfo_union_from_type_at_address(kind, address))

NextTypes ==
    \/ StructureFromTypeAtAddress
    \/ EnumerationFromTypeAtAddress
    \/ UnionFromTypeAtAddress

SpecTypes == InitTypes /\ [][NextTypes]_vars

----------------------------------------------------------------------------
(* Claims on the enumeration lookups.                                      *)

RootEnumeration == trail[1].cursor.enumeration

\* What the lookup by discriminant is said to return for the tag d (a U64):
\* a variant whose stored discriminant is Some(d); failing that a variant
\* whose discriminant is None; failing that VariantNotFound.
LookupAsClaimed(enumeration, d, res) ==
    LET variants == enumeration.variants
        matches(v) == d.hi = 0 /\ v.discriminant = Some(d.lo)
    IN  IF \E i \in 1..Len(variants) : matches(variants[i])
        THEN res.ok /\ matches(res.val.variant)
        ELSE IF \E i \in 1..Len(variants) : IsNone(variants[i].discriminant)
        THEN res.ok /\ IsNone(res.val.variant.discriminant)
        ELSE ~res.ok /\ res.err.tag = "VariantNotFound"

\* No two variants share a name or a discriminant, as in an enumeration
\* that a compiler emits.
WellFormed(enumeration) ==
    \A i, j \in 1..Len(enumeration.variants) :
        i # j => /\ enumeration.variants[i].name # enumeration.variants[j].name
                 /\ enumeration.variants[i].discriminant
                        # enumeration.variants[j].discriminant

\* C1: variant_with_discriminant(d) returns the variant whose stored
\* discriminant is Some(d) if there is one, else the variant whose
\* discriminant is None if there is one, else it fails with VariantNotFound.
C1_LookupByStoredDiscriminant ==
    last.op = "variant_with_discriminant" =>
        LookupAsClaimed(RootEnumeration, U64(last.arg, 0), result)

\* C2: round trip between names and discriminants: for every variant v with
\* discriminant Some(d), variant_named(v.name) returns a variant whose
\* discriminant is Some(d), and variant_with_discriminant(d) returns a
\* variant whose name is v.name.  Stated for the enumerations whose names
\* and discriminants are distinct, where the round trip is well defined.
C2_NameDiscriminantRoundTrip ==
    WellFormed(RootEnumeration) =>
        \A i \in 1..Len(RootEnumeration.variants) :
            LET v == RootEnumeration.variants[i]
            IN  IsSome(v.discriminant) =>
                /\ (last.op = "variant_named" /\ last.arg = v.name) =>
                        /\ result.ok
                        /\ result.val.variant.discriminant = v.discriminant
                /\ (last.op = "variant_with_discriminant"
                        /\ last.arg = Unwrap(v.discriminant)) =>
                        /\ result.ok
                        /\ result.val.variant.name = v.name

\* The discriminant as read: the little-endian value of the bytes logged.
TagRead == LET b == [i \in 1..Len(reads) |-> reads[i].val]
           IN  IF Len(b) = 8 THEN u64_from_le_bytes(b) ELSE u64_from(from_le_bytes(b))

RootDiscriminantSize ==
    info.units[1].base_types[RootEnumeration.discriminant_kind].size

\* C3: variant(reader), for a discriminant of size w in {1,2,4,8}, reads the
\* w-byte little-endian word at the cursor's address and returns the variant
\* enumerated for that tag, or the variant with discriminant None when the
\* tag matches no enumerated value, or VariantNotFound when there is none;
\* a size outside {1,2,4,8} gives SizeError(size).
C3_VariantReadsTagAndSelects ==
    last.op = "variant" =>
        LET w == RootDiscriminantSize
            address == Unwrap(trail[1].cursor.location)
        IN  IF w \notin {1, 2, 4, 8}
            THEN /\ result = Err([tag |-> "SizeError", size |-> w])
                 /\ reads = NoRead
            ELSE \/ /\ ~result.ok
                    /\ result.err.tag = "ReadError"
                    /\ reads[Len(reads)].val \in ReadErrors
                 \/ /\ reads[Len(reads)].val \notin ReadErrors
                    /\ Len(reads) = w
                    /\ \A i \in 1..w : reads[i].addr = address + (i - 1)
                    /\ LookupAsClaimed(RootEnumeration, TagRead, result)

\* C8: the payload structure cursor of a variant v selected on an
\* enumeration cursor at location L has location exactly L + v.offset.
C8_PayloadLocation ==
    (last.op = "structure" /\ result.ok
        /\ trail[Len(trail) - 1].cursor.type = "DebugEnumerationVariant") =>
        result.val.location =
            Some(Unwrap(trail[1].cursor.location)
                    + trail[Len(trail) - 1].cursor.variant.offset)

----------------------------------------------------------------------------
(* Claims on the walk through structures.                                  *)

\* The offset stored in the symbol model for the member of that name.
StoredOffset(structure, name) ==
    LET i == CHOOSE i \in 1..Len(structure.members) :
                    structure.members[i].name = Some(name)
    IN  structure.members[i].offset

HasMember(structure, name) ==
    \E i \in 1..Len(structure.members) : structure.members[i].name = Some(name)

RECURSIVE PathOffset(_)
PathOffset(t) ==
    IF Len(t) = 0 THEN 0
    ELSE PathOffset(SubSeq(t, 1, Len(t) - 1))
            + (IF t[Len(t)].op = "member_named"
               THEN t[Len(t)].cursor.structure_member.offset ELSE 0)

\* The number that the bytes logged from the from-th to the to-th spell,
\* the lowest byte first.
RECURSIVE LittleEndian(_, _, _)
LittleEndian(log, from, to) ==
    IF from > to THEN 0
    ELSE log[from].val + 256 * LittleEndian(log, from + 1, to)

\* C5: for a variable at address A and a path of nested structure members
\* m1..mk with offsets o1..ok that ends in a base type of size w in
\* {1,2,4,8}, variable.structure().member_named(m1).structure()...
\* .member_named(mk).base_type().as_uN(reader), N at least 8*w, reads the w
\* bytes at A + o1 + ... + ok, in order and no other address, and returns
\* their little-endian value, zero-extended (None if the reader fails).
C5_AddressComposition ==
    last.op = "as_u" =>
        LET w == last.self.base_type.size
            address == trail[1].cursor.variable.location + PathOffset(trail)
            failed == \E i \in 1..Len(reads) : reads[i].val \in ReadErrors
        IN  (w \in {1, 2, 4, 8} /\ last.arg >= 8 * w) =>
                /\ Len(reads) \in 1..w
                /\ \A i \in 1..Len(reads) : reads[i].addr = address + (i - 1)
                /\ failed => result = None
                /\ ~failed =>
                    /\ Len(reads) = w
                    /\ result =
                        IF last.arg = 64
                        THEN Some([lo |-> LittleEndian(reads, 1, IF w < 4 THEN w ELSE 4),
                                   hi |-> LittleEndian(reads, 5, w)])
                        ELSE Some(LittleEndian(reads, 1, w))

\* C5's case: an 8-byte word three structures deep, every member on the
\* path at a non-zero offset, read with a non-zero high half.
C5_Witness ==
    /\ last.op = "as_u"
    /\ last.arg = 64
    /\ last.self.base_type.size = 8
    /\ Len(trail) = 8
    /\ \A i \in 1..Len(trail) :
            trail[i].op = "member_named" => trail[i].cursor.structure_member.offset > 0
    /\ IsSome(result)
    /\ Unwrap(result).hi > 0
    /\ Unwrap(result).lo > 0

----------------------------------------------------------------------------
(* Claims on the pointers.                                                 *)

\* C6: for a pointer cursor at address a, follow(reader) reads the four
\* bytes at a and returns a cursor whose location is their 32-bit
\* little-endian word and whose offset accumulator is 0; when the read
\* succeeds, follow_unless_null fails, with ReadError, if and only if that
\* word is 0, and otherwise returns what follow returns.
C6_FollowReadsTarget ==
    last.op \in {"follow", "follow_unless_null"} =>
        LET a == Unwrap(last.self.location)
            failed == \E i \in 1..Len(reads) : reads[i].val \in ReadErrors
            word == LittleEndian(reads, 1, 4)
            followed == [last.self EXCEPT !.location = Some(word), !.offset = 0]
        IN  /\ Len(reads) \in 1..4
            /\ \A i \in 1..Len(reads) : reads[i].addr = a + (i - 1)
            /\ failed => result = Err([tag |-> "ReadError"])
            /\ ~failed =>
                /\ Len(reads) = 4
                /\ last.op = "follow" => result = Ok(followed)
                /\ last.op = "follow_unless_null" =>
                    /\ ~result.ok <=> word = 0
                    /\ ~result.ok => result = Err([tag |-> "ReadError"])
                    /\ result.ok => result = Ok(followed)

\* C6's case: a pointer member at a non-zero offset whose four bytes were
\* read as zero, followed with follow_unless_null.
C6_Witness ==
    /\ last.op = "follow_unless_null"
    /\ last.self.offset > 0
    /\ Len(reads) = 4
    /\ \A i \in 1..4 : reads[i].val = 0
    /\ ~result.ok

----------------------------------------------------------------------------
(* Claims on the arrays.                                                   *)

\* The array cursor that the iterator at the end of the trail was made of.
IteratedArray == trail[Len(trail) - 1].cursor

\* C7: for an array cursor A with count n and known element size s, the
\* iterator returned by A.iter() yields exactly n items, then None on every
\* later call, and the i-th item (i from 0 to n-1) has location
\* A.location + i*s and offset accumulator A.offset + i*s.
C7_IteratorYieldsStridedItems ==
    last.op = "next" =>
        LET i == last.arg
            n == IteratedArray.array.count
            s == Unwrap(DebugInfo_size_from_item(IteratedArray.array.kind))
        IN  IF i < n
            THEN /\ IsSome(result)
                 /\ Unwrap(result).location
                        = Some(Unwrap(IteratedArray.location) + i * s)
                 /\ Unwrap(result).offset = IteratedArray.offset + i * s
            ELSE result = None

----------------------------------------------------------------------------
(* Claims on the name splitting.                                           *)

Separator == <<":", ":">>

\* C9: split_namespace_and_name loses nothing: for every name n with
\* split(n) = (ns, name), if ns is not empty then ns followed by "::"
\* followed by name is n, and if ns is empty then name is n.
C9_SplitLosesNothing ==
    last.op = "split_namespace_and_name" =>
        IF result[1] # <<>>
        THEN result[1] \o Separator \o result[2] = kind
        ELSE result[2] = kind

\* C9's case: a name with generic brackets that was split into a
\* namespace and a name.
C9_Witness ==
    /\ last.op = "split_namespace_and_name"
    /\ result[1] # <<>>
    /\ \E i \in 1..Len(kind) : kind[i] = "<"
    /\ Len(result[2]) > 1

\* The positions at which a "::" starts in n.
Separators(n) == {i \in 1..(Len(n) - 1) : n[i] = ":" /\ n[i + 1] = ":"}

\* The number of '<' less the number of '>' before position i of n.
Depth(n, i) ==
    Cardinality({j \in 1..(i - 1) : n[j] = "<"})
        - Cardinality({j \in 1..(i - 1) : n[j] = ">"})

\* The split of n at position i, the two characters of the separator left out.
SplitAt(n, i) == <<SubSeq(n, 1, i - 1), SubSeq(n, i + 2, Len(n))>>

\* The split of n at the last of the positions at, or none when at is empty.
SplitAtLast(n, at) ==
    IF at = {} THEN <<<<>>, n>>
    ELSE SplitAt(n, CHOOSE i \in at : \A j \in at : j <= i)

Splittable(n) ==
    /\ Len(n) > 0
    /\ is_ascii_alphabetic(n[1])
    /\ ~str_starts_with(n, <<"d", "y", "n", " ">>)

\* C10 (as stated): for a name n that starts with an alphabetic character
\* and not with "dyn ", the split is at the last "::" of n that lies
\* outside all <...> brackets; with no such "::" the namespace is empty and
\* the name is n.
C10_SplitAtLastTopLevel ==
    (last.op = "split_namespace_and_name" /\ Splittable(kind)) =>
        result = SplitAtLast(kind, {i \in Separators(kind) : Depth(kind, i) <= 0})

\* C10 (amended): for a name n that starts with an alphabetic character and
\* not with "dyn ", the split is at the last "::" of n that lies before the
\* first '<' of n, anywhere in n when it has no '<'; with no such "::" the
\* namespace is empty and the name is n.
C10_SplitAtLastBeforeBracket ==
    (last.op = "split_namespace_and_name" /\ Splittable(kind)) =>
        result = SplitAtLast(kind,
                    {i \in Separators(kind) :
                        \A j \in 1..(i + 1) : kind[j] # "<"})

\* C10's case: a name with a "::" before its first '<' and another "::"
\* after it.
C10_Witness ==
    /\ last.op = "split_namespace_and_name"
    /\ Splittable(kind)
    /\ result[1] # <<>>
    /\ \E i \in 1..Len(kind) :
            /\ kind[i] = "<"
            /\ \E j \in Separators(kind) : j > i

----------------------------------------------------------------------------
(* Claims on the registry.                                                 *)

KindFields == {"arrays", "base_types", "enumerations", "pointers", "structures",
               "unions", "variables"}

\* The kinds under which the unit holds the item.
KindsHolding(unit, item) == {f \in KindFields : item \in DOMAIN unit[f]}

\* The registry has been built.
Built == last.op \in {"loaded", "size_from_item"}

\* The offsets of the entries of the object file, unit by unit, entry by entry.
EntryPlaces ==
    {p \in (1..Len(dwarf)) \X (1..MaxEntries) : p[2] <= Len(dwarf[p[1]])}

\* C11: for a registered DebugItem id, size_from_item(id) is the stored size
\* of the entity when id is a structure, an enumeration, a union or a base
\* type, and None when id is an array or a pointer; for an unregistered id
\* it is None.
C11_SizeFromItem ==
    last.op = "size_from_item" =>
        LET item == last.arg
            holders == {u \in 1..Len(info.units) : KindsHolding(info.units[u], item) # {}}
        IN  IF holders = {} THEN result = None
            ELSE \A u \in holders : \A f \in KindsHolding(info.units[u], item) :
                    /\ f \in {"structures", "enumerations", "unions", "base_types"}
                            => result = Some(info.units[u][f][item].size)
                    /\ f \in {"arrays", "pointers"} => result = None

\* C11's case: the size of a union of the second unit.
C11_Witness ==
    /\ last.op = "size_from_item"
    /\ Len(info.units) = 2
    /\ last.arg \in DOMAIN info.units[2].unions
    /\ IsSome(result)

C12_Witness ==
    /\ Built
    /\ Len(info.units) = 2
    /\ \A u \in 1..2 : \E f \in KindFields : DOMAIN info.units[u][f] # {}

----------------------------------------------------------------------------
(* Claims on the variables.                                                *)

\* The variables that the build inserted, of all units.
RegisteredVariables ==
    UNION {{info.units[u].variables[item] : item \in DOMAIN info.units[u].variables} :
                u \in 1..Len(info.units)}

\* C13: for every registered variable v that has a linkage name,
\* variable_from_demangled_name(demangle(v.linkage_name)) succeeds and
\* returns a variable whose kind is v.kind, whatever the local name, the
\* namespace chain and the linkage name, in registries of one unit and of
\* several.
C13_DemangledLinkageNameFindsKind ==
    last.op = "variable_from_demangled_name" =>
        \A v \in RegisteredVariables :
            (IsSome(v.linkage_name)
                    /\ last.arg = rustc_demangle(Unwrap(v.linkage_name))) =>
                /\ result.ok
                /\ result.val.variable.kind = v.kind

\* C14: every variable inserted by the build is retrievable under all of
\* its names: variable_from_name finds it by its qualified name and by its
\* linkage name when it has one, variable_from_demangled_name finds it by
\* the demangled form of each of those names, and variable_from_item finds
\* it by its DebugItem; with and without a linkage name.
C14_VariableRetrievable ==
    \A v \in RegisteredVariables :
        LET names == {v.name} \cup
                        (IF IsSome(v.linkage_name) THEN {Unwrap(v.linkage_name)} ELSE {})
        IN  /\ (last.op = "variable_from_name" /\ last.arg \in names) =>
                    result = Ok(DebugVariable(v))
            /\ (last.op = "variable_from_demangled_name"
                    /\ last.arg \in {rustc_demangle(n) : n \in names}) =>
                    result = Ok(DebugVariable(v))
            /\ (last.op = "variable_from_item" /\ last.arg = v.kind - 100) =>
                    result = Some(v)

----------------------------------------------------------------------------
(* Claims on the errors of the facade.                                     *)

\* C15: member_named(s) on a structure cursor and on a union cursor whose
\* entity has no member named s fails with MemberNotFound{owner, member},
\* owner the name of the entity and member s.
C15_MemberNotFound ==
    /\ (last.op = "member_named" /\ ~HasMember(last.self.structure, last.arg)) =>
            result = Err([tag |-> "MemberNotFound",
                          owner |-> last.self.structure.name, member |-> last.arg])
    /\ (last.op = "union_member_named" /\ ~HasMember(last.self.union, last.arg)) =>
            result = Err([tag |-> "MemberNotFound",
                          owner |-> last.self.union.name, member |-> last.arg])

\* The words by which find_alternatives names the kinds.
KindWord(field) ==
    CASE field = "structures" -> "structure"
      [] field = "enumerations" -> "enumeration"
      [] field = "pointers" -> "pointer"
      [] field = "arrays" -> "array"
      [] field = "unions" -> "union"
      [] field = "base_types" -> "base type"
      [] OTHER -> "variable"

\* The operations that take a member under a kind, and that kind.
Accessors ==
    [member_structure |-> "structure", member_enumeration |-> "enumeration",
     member_pointer |-> "pointer", member_array |-> "array",
     member_union |-> "union", member_base_type |-> "base type"]

\* The words of the kinds under which the registry holds the item.
ActualKinds(item) ==
    {KindWord(f) : f \in UNION {KindsHolding(info.units[u], item) :
                                    u \in 1..Len(info.units)}}

\* C16: a member accessor for a kind other than the registered kind of the
\* member's item fails with KindIncorrect{owner, member, attempted, actual},
\* actual the kind that is registered; when the item is registered under
\* no kind it fails with KindNotFound{owner, member}.
C16_AccessorKindErrors ==
    last.op \in DOMAIN Accessors =>
        LET self == last.self
            attempted == Accessors[last.op]
            actual == ActualKinds(self.structure_member.kind)
        IN  /\ (actual = {}) =>
                    result = Err([tag |-> "KindNotFound", owner |-> self.parent_name,
                                  member |-> self.structure_member.name])
            /\ (actual # {} /\ attempted \notin actual) =>
                    \E registered \in actual :
                        result = Err([tag |-> "KindIncorrect",
                                      owner |-> self.parent_name,
                                      member |-> self.structure_member.name,
                                      attempted |-> attempted,
                                      actual |-> registered])

\* A member that is a union has been taken as a pointer.
C16_Witness ==
    /\ last.op = "member_pointer"
    /\ ActualKinds(last.self.structure_member.kind) = {"union"}
    /\ ~result.ok
    /\ result.err.tag = "KindIncorrect"

----------------------------------------------------------------------------
(* Claims on the slices.                                                   *)

\* The members of that name and that kind of entity.
MembersOf(structure, name, field) ==
    {i \in 1..Len(structure.members) :
        /\ structure.members[i].name = Some(name)
        /\ field \in ActualKinds(structure.members[i].kind)}

\* The two-field slice layout: exactly one base-type member named length
\* and one pointer member named data_ptr.
SliceLayout(structure) ==
    /\ Len(structure.members) = 2
    /\ Cardinality(MembersOf(structure, "length", "base type")) = 1
    /\ Cardinality(MembersOf(structure, "data_ptr", "pointer")) = 1

\* C17: as_slice on a structure whose member shape is not the two-field
\* slice layout fails with NotRustSlice(owner), whether the member count,
\* the member names or the member kinds are wrong.
C17_NotRustSlice ==
    (last.op = "as_slice" /\ ~SliceLayout(last.self.structure)) =>
        result = Err([tag |-> "NotRustSice", owner |-> last.self.structure.name])

\* The structure cursor that the slice was made of, the slice cursor that
\* the iterator was made of.
SlicedStructure == last.self
IteratedSlice == trail[Len(trail) - 1].cursor

\* The offset of the member of that name.
OffsetOf(structure, name) ==
    LET i == CHOOSE i \in 1..Len(structure.members) :
                    structure.members[i].name = Some(name)
    IN  structure.members[i].offset

\* The bytes that the reader has answered for address .. address + w - 1.
BytesAt(address, w) ==
    [k \in 1..w |->
        LET i == CHOOSE i \in 1..Len(reads) : reads[i].addr = address + (k - 1)
        IN  reads[i].val]

\* The reader has answered every read of the call.
AllRead == \A i \in 1..Len(reads) : reads[i].val \notin ReadErrors

\* The type of the length member, the element type of the slice.
LengthType(structure) ==
    info.units[1].base_types[
        structure.members[CHOOSE i \in MembersOf(structure, "length", "base type") :
                                TRUE].kind]
ElementIsBaseType == "base type" \in ActualKinds(info.units[1].pointers[PointerItem].kind)

\* as_slice of a structure of the slice layout, at address A: the slice has
\* the length n read at A + offset(length) and lies at the word p read at
\* A + offset(data_ptr).
SliceAsRead ==
    LET structure == SlicedStructure.structure
        A == Unwrap(SlicedStructure.location)
        w == LengthType(structure).size
        n == from_le_bytes(BytesAt(A + OffsetOf(structure, "length"), w))
        p == from_le_bytes(BytesAt(A + OffsetOf(structure, "data_ptr"), 4))
    IN  /\ result.ok
        /\ Len(reads) = w + 4
        /\ result.val.length = U64(n, 0)
        /\ result.val.location = Some(p)

\* The i-th call of next on the iterator of a slice of n elements of size
\* s at p yields the element at p + i*s when i < n, and None after that.
SliceNextStrided ==
    LET i == last.arg
        n == IteratedSlice.length
        p == Unwrap(IteratedSlice.location)
        s == Unwrap(DebugInfo_size_from_item(IteratedSlice.data_ptr.kind))
    IN  IF n.hi > 0 \/ i < n.lo
        THEN /\ IsSome(result)
             /\ Unwrap(result).location = Some(p + i * s)
             /\ Unwrap(result).base_type
                    = Unwrap(DebugInfo_base_type_from_item(IteratedSlice.data_ptr.kind))
        ELSE result = None

\* C18 as stated: for a structure at A with the members length (base type)
\* and data_ptr (pointer to a base type of size s), whatever the reader
\* answers, as_slice then base_type_iter yields exactly n elements, n the
\* value read at A + offset(length), the i-th at p + i*s, p the 32-bit word
\* read at A + offset(data_ptr).
C18_SliceYieldsElements ==
    /\ (/\ last.op = "as_slice"
        /\ SliceLayout(SlicedStructure.structure)
        /\ \A k \in 1..2 : \A j \in 1..Len(last.arg[k]) :
                last.arg[k][j] \notin ReadErrors)
            => SliceAsRead
    /\ (last.op = "base_type_iter" /\ ElementIsBaseType) => result.ok
    /\ last.op = "slice_next" => SliceNextStrided

\* C18, amended: the same, when the length is 1, 2, 4 or 8 bytes wide and
\* the word read for data_ptr is not 0.
C18_SliceYieldsElementsUnlessNull ==
    /\ (/\ last.op = "as_slice"
        /\ SliceLayout(SlicedStructure.structure)
        /\ LengthType(SlicedStructure.structure).size \in AsSizes(64)
        /\ Len(last.arg[2]) = 4
        /\ AllRead
        /\ from_le_bytes(last.arg[2]) # 0)
            => SliceAsRead
    /\ (last.op = "base_type_iter" /\ ElementIsBaseType) => result.ok
    /\ last.op = "slice_next" => SliceNextStrided

\* The second element of a slice of words of 4 bytes has been yielded, and
\* the end of a slice of one element has been reached.
C18_Witness ==
    /\ last.op = "slice_next"
    /\ IteratedSlice.length.lo >= 1
    /\ \/ /\ last.arg = 1
          /\ IsSome(result)
          /\ Cursor.size = 4
       \/ /\ last.arg = 1
          /\ IteratedSlice.length = U64(1, 0)
          /\ result = None

----------------------------------------------------------------------------
(* Claims on the calls of the reader.                                      *)

\* The calls of the reader, by position in the call, for the bytes at
\* address .. address + w - 1.
ReadsOf(address, w) ==
    {i \in 1..Len(reads) : reads[i].addr \in address..(address + w - 1)}

\* The calls of the reader that as_slice makes for the member of that name
\* and that width; none when the structure has no such member.
MemberReads(self, name, w) ==
    IF HasMember(self.structure, name)
    THEN ReadsOf(Unwrap(self.location) + OffsetOf(self.structure, name), w)
    ELSE {}

\* C19: within as_slice every read of the length member comes before any
\* read of data_ptr, and data_ptr is not read when the read of the length
\* fails; within variant the read of the discriminant is the only read,
\* and a variant is selected only after it has completed; iter and next on
\* an array issue no read, u8 on an item issues the read of that item.
C19_OrderOfReads ==
    /\ last.op = "as_slice" =>
        LET length == MemberReads(last.self, "length", 4)
            data_ptr == MemberReads(last.self, "data_ptr", 4)
        IN  /\ length \cup data_ptr = 1..Len(reads)
            /\ \A i \in length, j \in data_ptr : i < j
            /\ (\E i \in length : reads[i].val \in ReadErrors) => data_ptr = {}
            /\ result.ok => (length # {} /\ data_ptr # {})
    /\ last.op = "variant" =>
        LET w == RootDiscriminantSize
            address == Unwrap(last.self.location)
        IN  /\ Len(reads) <= w
            /\ \A i \in 1..Len(reads) : reads[i].addr = address + (i - 1)
            /\ result.ok =>
                /\ Len(reads) = w
                /\ \A i \in 1..w : reads[i].val \notin ReadErrors
    /\ last.op \in {"iter", "next", "item_structure"} => reads = NoRead
    /\ last.op = "item_u8" =>
        /\ Len(reads) <= 1
        /\ \A i \in 1..Len(reads) : reads[i].addr = Unwrap(last.self.location)

\* as_slice has read the length and then the pointer.
C19_Witness ==
    /\ last.op = "as_slice"
    /\ result.ok
    /\ MemberReads(last.self, "length", 4) # {}
    /\ MemberReads(last.self, "data_ptr", 4) # {}

\* The operations of C20.
NarrowingOps == {"follow", "follow_unless_null", "try_follow", "variant", "as_slice"}

\* The reader has returned an error during the call.
ReaderFailed == \E i \in 1..Len(reads) : reads[i].val \in ReadErrors

\* C20: when the reader returns an error during follow, follow_unless_null,
\* try_follow, variant or as_slice, the operation fails with ReadError and
\* with no other error, whatever the error value of the reader is.
C20_ReaderErrorIsReadError ==
    (last.op \in NarrowingOps /\ ReaderFailed) =>
        result = Err([tag |-> "ReadError"])

\* The reader has failed with its second error value while as_slice was
\* following data_ptr, after the length had been read.
C20_Witness ==
    /\ last.op = "as_slice"
    /\ Len(reads) > 1
    /\ reads[Len(reads)].val = ReadFault
    /\ reads[1].val \notin ReadErrors
    /\ result = Err([tag |-> "ReadError"])

----------------------------------------------------------------------------
(* Claims on the walk of UnitInfo::new.                                    *)

\* C22: the build of a unit completes or aborts only because an
\* identifier is registered twice: no other condition of the DIEs makes
\* it panic.
C22_OnlyCollisionsAbort ==
    (last.op = "panic") =>
        /\ result.cause = "registered twice"
        /\ \E i, j \in 1..Len(dwarf) : i # j /\ dwarf[i].offset = dwarf[j].offset

\* The tree that dwarf spells: the depth of the DIE at position i, its
\* parent (0 for the root), its children in order.
RECURSIVE DieDepth(_)
DieDepth(i) == IF i = 0 THEN 0 ELSE DieDepth(i - 1) + dwarf[i].depth_delta

DieParent(i) ==
    LET above == {j \in 1..(i - 1) : DieDepth(j) = DieDepth(i) - 1}
    IN  IF above = {} THEN 0 ELSE CHOOSE j \in above : \A k \in above : k <= j

HasParent(i, tag) == DieParent(i) # 0 /\ dwarf[DieParent(i)].tag = tag

\* The cache that the walk has built.
Cache == info.units[1]

\* The structure_type DIEs with a DW_TAG_variant_part child.
VariantParents ==
    {DieParent(i) : i \in {j \in 1..Len(dwarf) :
        dwarf[j].tag = "DW_TAG_variant_part" /\ HasParent(j, "DW_TAG_structure_type")}}

\* C24: after the build, every structure_type DIE S with a variant_part
\* child is an enumeration and no structure, with S's own name and size,
\* and no other structure is removed or reclassified, whatever the order
\* of the DIEs.
C24_PromotionHitsItsStructure ==
    (last.op = "built") =>
        \A s \in {i \in 1..Len(dwarf) : dwarf[i].tag = "DW_TAG_structure_type"
                                        /\ IsSome(parse_structure(dwarf[i]))} :
            IF s \in VariantParents
            THEN /\ s \in DOMAIN Cache.enumerations
                 /\ s \notin DOMAIN Cache.structures
                 /\ Cache.enumerations[s].name = Unwrap(dwarf[s].name)
                 /\ Cache.enumerations[s].size = Unwrap(dwarf[s].byte_size)
            ELSE /\ s \in DOMAIN Cache.structures
                 /\ s \notin DOMAIN Cache.enumerations

\* The positions of the DIEs on the path from the root to the DIE at i.
RECURSIVE DiePath(_)
DiePath(i) == IF i = 0 THEN <<>> ELSE Append(DiePath(DieParent(i)), i)

NamedNamespacesOf(path) ==
    LET IsNamed(i) == dwarf[i].tag = "DW_TAG_namespace" /\ IsSome(dwarf[i].name)
        named == SelectSeq(path, IsNamed)
    IN  [k \in 1..Len(named) |-> Unwrap(dwarf[named[k]].name)]

\* C25: after each DIE, parent_namespace holds the names of the named
\* namespace DIEs on the path from the root to that DIE, outermost first,
\* and tag_parent_list the tags of the path.
C25_NamespaceStackIsThePath ==
    (last.op = "walk") =>
        LET path == DiePath(Len(dwarf))
        IN  /\ result.tag_parent_list = [k \in 1..Len(path) |-> dwarf[path[k]].tag]
            /\ result.parent_namespace = NamedNamespacesOf(path)

\* The elements of a set of positions, in order.
Sorted(set) ==
    [k \in 1..Cardinality(set) |->
        CHOOSE x \in set : Cardinality({y \in set : y < x}) = k - 1]

\* The DW_TAG_member children of the DIE at position p from which
\* parse_structure_member makes a member.
MemberDies(p) ==
    {i \in 1..Len(dwarf) : /\ dwarf[i].tag = "DW_TAG_member"
                           /\ DieParent(i) = p
                           /\ IsSome(parse_structure_member(dwarf[i]))}

\* Whether the members are those of some of the member DIEs of p, in the
\* order of the DIEs.
MembersFrom(members, p) ==
    \E dies \in SUBSET MemberDies(p) :
        members = [k \in 1..Cardinality(dies) |->
                        Unwrap(parse_structure_member(dwarf[Sorted(dies)[k]]))]

\* C26: after the build, every member in the member list of a structure
\* or of a union was parsed from a member DIE that is a child of the DIE
\* of that structure or union, whatever the order of the DIEs.
C26_MembersBelongToTheirParent ==
    (last.op = "built") =>
        /\ \A s \in DOMAIN Cache.structures :
                MembersFrom(Cache.structures[s].members, s)
        /\ \A u \in DOMAIN Cache.unions :
                MembersFrom(Cache.unions[u].members, u)

\* Whether the DIE at position i is a DW_TAG_subrange_type child of an
\* array_type DIE; whether it is the first such child of an array_type
\* with a resolvable element type and has both lower_bound and count.
IsSubrangeOfArray(i) ==
    dwarf[i].tag = "DW_TAG_subrange_type" /\ HasParent(i, "DW_TAG_array_type")

IsFirstSubrange(i) ==
    /\ IsSubrangeOfArray(i)
    /\ IsSome(parse_array(dwarf[DieParent(i)]))
    /\ IsSome(parse_subrange(dwarf[i]))
    /\ \A j \in 1..(i - 1) :
            ~(dwarf[j].tag = "DW_TAG_subrange_type" /\ DieParent(j) = DieParent(i))

\* Whether the arrays hold, under the item of the array_type DIE at
\* position a, the Array of that DIE and of the subrange at position i.
ArrayOf(st, a, i) ==
    /\ dwarf[a].offset \in DOMAIN st.array_address
    /\ st.arrays[st.array_address[dwarf[a].offset]] =
            [kind |-> Unwrap(parse_array(dwarf[a])).kind,
             lower_bound |-> Unwrap(dwarf[i].lower_bound),
             count |-> Unwrap(dwarf[i].count)]

\* The position of the DIE processed last; whether no array_type DIE lies
\* between the DIE at position i and its parent.
LastDie == Len(dwarf)

NoArrayBetween(i) ==
    \A j \in (DieParent(i) + 1)..(i - 1) : dwarf[j].tag # "DW_TAG_array_type"

C30_SentinelIsKindNotFound ==
    /\ (last.op = "built") =>
            \A k \in 1..Len(result.enumerations) :
                result.enumerations[k].discriminant_kind = 0 =>
                    \E item \in DOMAIN Cache.enumerations :
                        Cache.enumerations[item] = result.enumerations[k]
    /\ (/\ last.op \in {"discriminant_size", "variant"}
        /\ last.self.enumeration.discriminant_kind = 0) =>
            /\ ~result.ok
            /\ result.err.tag = "KindNotFound"
            /\ reads = NoRead

----------------------------------------------------------------------------
(* Claims on the lookups of a type by its qualified name.                  *)

\* The map, the cursor field and the error of each lookup by name.
TypeLookups ==
    {[op |-> "structure_from_type_at_address", field |-> "structures",
      entity |-> "structure", error |-> "StructureNotFound"],
     [op |-> "enumeration_from_type_at_address", field |-> "enumerations",
      entity |-> "enumeration", error |-> "EnumerationNotFound"],
     [op |-> "union_from_type_at_address", field |-> "unions",
      entity |-> "union", error |-> "UnionNotFound"]}

\* C23: each *_from_type_at_address(qualified_name, addr) succeeds exactly
\* when the namespace split off the name is not empty and an entity of
\* its kind is registered with that namespace and name, and then returns
\* a cursor on such an entity at location addr with offset 0; otherwise
\* it fails with the error of its own kind.
C23_TypeLookupByName ==
    \A lookup \in TypeLookups :
        (last.op = lookup.op) =>
            LET split == split_namespace_and_name(kind)
                registered ==
                    {entity \in UNION {{info.units[u][lookup.field][item] :
                                            item \in DOMAIN info.units[u][lookup.field]} :
                                       u \in 1..Len(info.units)} :
                        entity.namespace = split[1] /\ entity.name = split[2]}
            IN  IF split[1] # <<>> /\ registered # {}
                THEN /\ result.ok
                     /\ result.val[lookup.entity] \in registered
                     /\ result.val.location = Some(last.arg)
                     /\ result.val.offset = 0
                ELSE /\ ~result.ok
                     /\ result.err.tag = lookup.error

----------------------------------------------------------------------------
(* Claims on the cursors as a whole.                                       *)

\* C28: every cursor reached from the root cursor of a variable, which
\* has offset 0, by descent operations without a pointer follow or a
\* reset_offset, has for location the location of the root plus its
\* offset accumulator.
C28_LocationIsRootPlusOffset ==
    \A i \in 1..Len(trail) :
        LET cursor == trail[i].cursor
        IN  cursor.type # "DebugVariable" =>
                cursor.location = Some(VarLocation + cursor.offset)

\* C29: every cursor obtained from an entry point of the registry and then
\* by descent, iteration, as_slice and follow operations has a location,
\* and none of these operations returns LocationMissing.
C29_LocationPresent ==
    /\ \A i \in 1..Len(trail) :
            LET cursor == trail[i].cursor
            IN  cursor.type # "DebugVariable" => IsSome(cursor.location)
    /\ (last.op \in NarrowingOps) => result # Err([tag |-> "LocationMissing"])

\* C29's case: a pointer reached by descent from a variable has been
\* followed and the structure it points to has its location.
C29_Witness ==
    /\ last.op = "follow"
    /\ result.ok
    /\ IsSome(result.val.location)
    /\ trail[1].op = "variable_from_demangled_name"
    /\ Len(trail) > 4
====
